---- MODULE Spec2Model ----
(***************************************************************************)
(* State-machine model of src/script.js (click-to-move chess with a        *)
(* computer opponent).  The single global object gameState is one          *)
(* variable; the pending timers of the browser event loop and the          *)
(* localStorage entry are the other parts of the state.                    *)
(***************************************************************************)
EXTENDS Integers, Sequences, FiniteSets, TLC

VARIABLES gameState,      \* the global object of script.js:23-43
          localStorage,   \* the entry under STORAGE_KEY, or null
          timers,         \* pending setTimeout(makeComputerMove, 500)
          callbacks,      \* pending inner setTimeout of makeComputerMove
          executed        \* number of makeMove calls since page load

vars == <<gameState, localStorage, timers, callbacks, executed>>

\* JavaScript null (an empty square, no en-passant target, no selection).
null == [type |-> "null"]

Rows == 0..7
Cols == 0..7

P(t, c) == [type |-> t, color |-> c]
Sq(r, c) == [row |-> r, col |-> c]

other(color) == IF color = "white" THEN "black" ELSE "white"

some(s, Test(_)) == \E i \in DOMAIN s : Test(s[i])

abs(x) == IF x < 0 THEN -x ELSE x

max(x, y) == IF x > y THEN x ELSE y

isValidSquare(row, col) == row >= 0 /\ row < 8 /\ col >= 0 /\ col < 8

\* A plain move object {row, col}; enPassant and castling are the optional tags.
Mv(r, c) == [row |-> r, col |-> c, enPassant |-> FALSE, castling |-> "none"]

backRow == <<"rook", "knight", "bishop", "queen", "king", "bishop", "knight", "rook">>

initializeBoard ==
    [row \in Rows |-> [col \in Cols |->
        CASE row = 0 -> P(backRow[col + 1], "black")
          [] row = 1 -> P("pawn", "black")
          [] row = 6 -> P("pawn", "white")
          [] row = 7 -> P(backRow[col + 1], "white")
          [] OTHER -> null]]

\* ---- attack squares (no castling, no en passant) ----

rookDirections == <<<<0, 1>>, <<0, -1>>, <<1, 0>>, <<-1, 0>>>>
bishopDirections == <<<<1, 1>>, <<1, -1>>, <<-1, 1>>, <<-1, -1>>>>
knightOffsets == <<<<-2, -1>>, <<-2, 1>>, <<-1, -2>>, <<-1, 2>>,
                   <<1, -2>>, <<1, 2>>, <<2, -1>>, <<2, 1>>>>
kingOffsets == <<<<-1, -1>>, <<-1, 0>>, <<-1, 1>>, <<0, -1>>, <<0, 1>>,
                 <<1, -1>>, <<1, 0>>, <<1, 1>>>>

\* The squares one direction's loop pushes: i = 1..7 until the edge, an own
\* piece (stop before) or an enemy piece (include, then stop).
RECURSIVE slide(_, _, _, _, _, _, _)
slide(board, row, col, color, dRow, dCol, i) ==
    LET newRow == row + dRow * i
        newCol == col + dCol * i
    IN IF i >= 8 \/ ~isValidSquare(newRow, newCol) THEN <<>>
       ELSE IF board[newRow][newCol] = null
            THEN <<Mv(newRow, newCol)>> \o slide(board, row, col, color, dRow, dCol, i + 1)
            ELSE IF board[newRow][newCol].color # color
                 THEN <<Mv(newRow, newCol)>>
                 ELSE <<>>

slideAll(board, row, col, color, directions) ==
    slide(board, row, col, color, directions[1][1], directions[1][2], 1) \o
    slide(board, row, col, color, directions[2][1], directions[2][2], 1) \o
    slide(board, row, col, color, directions[3][1], directions[3][2], 1) \o
    slide(board, row, col, color, directions[4][1], directions[4][2], 1)

getRookMovesTemp(row, col, color, board) == slideAll(board, row, col, color, rookDirections)

getBishopMovesTemp(row, col, color, board) == slideAll(board, row, col, color, bishopDirections)

\* offsets.forEach: the offsets whose square is on the board and not own.
step(board, row, col, color, offsets, ownBlocks) ==
    LET cand == [k \in 1..Len(offsets) |-> Mv(row + offsets[k][1], col + offsets[k][2])]
    IN SelectSeq(cand, LAMBDA m :
           isValidSquare(m.row, m.col) /\
           (~ownBlocks \/ board[m.row][m.col] = null \/ board[m.row][m.col].color # color))

getKnightMovesTemp(row, col, color, board) == step(board, row, col, color, knightOffsets, TRUE)

getAttackSquares(row, col, piece, board) ==
    CASE piece.type = "pawn" ->
           LET direction == IF piece.color = "white" THEN -1 ELSE 1
           IN step(board, row, col, piece.color, <<<<direction, -1>>, <<direction, 1>>>>, FALSE)
      [] piece.type = "rook" -> getRookMovesTemp(row, col, piece.color, board)
      [] piece.type = "knight" -> getKnightMovesTemp(row, col, piece.color, board)
      [] piece.type = "bishop" -> getBishopMovesTemp(row, col, piece.color, board)
      [] piece.type = "queen" -> getRookMovesTemp(row, col, piece.color, board) \o
                                 getBishopMovesTemp(row, col, piece.color, board)
      [] piece.type = "king" -> step(board, row, col, piece.color, kingOffsets, FALSE)

isSquareUnderAttackTemp(row, col, defenderColor, board) ==
    LET attackerColor == other(defenderColor)
    IN \E r \in Rows, c \in Cols :
          /\ board[r][c] # null
          /\ board[r][c].color = attackerColor
          /\ some(getAttackSquares(r, c, board[r][c], board),
                  LAMBDA sq : sq.row = row /\ sq.col = col)

isSquareUnderAttack(gs, row, col, defenderColor) ==
    isSquareUnderAttackTemp(row, col, defenderColor, gs.board)

isKingAt(board, row, col, color) ==
    board[row][col] # null /\ board[row][col].type = "king" /\ board[row][col].color = color

\* The scan "for row, for col ... break": the first king of the colour in
\* row-major order; row and col stay undefined (-1 here) when there is none.
findKing(board, color) ==
    IF \E row \in Rows, col \in Cols : isKingAt(board, row, col, color)
    THEN LET k == CHOOSE k \in 0..63 :
                    /\ isKingAt(board, k \div 8, k % 8, color)
                    /\ \A j \in 0..(k - 1) : ~isKingAt(board, j \div 8, j % 8, color)
         IN Sq(k \div 8, k % 8)
    ELSE Sq(-1, -1)

isKingInCheck(gs, color) ==
    LET king == findKing(gs.board, color)
    IN isSquareUnderAttack(gs, king.row, king.col, color)

\* ---- pseudo-legal move generators on the live board ----

getPawnMoves(gs, row, col, color) ==
    LET direction == IF color = "white" THEN -1 ELSE 1
        startRow == IF color = "white" THEN 6 ELSE 1
        forward ==
            IF isValidSquare(row + direction, col) /\ gs.board[row + direction][col] = null
            THEN <<Mv(row + direction, col)>> \o
                 (IF row = startRow /\ gs.board[row + 2 * direction][col] = null
                  THEN <<Mv(row + 2 * direction, col)>> ELSE <<>>)
            ELSE <<>>
        diagonal(offset) ==
            LET newRow == row + direction
                newCol == col + offset
            IN IF isValidSquare(newRow, newCol)
               THEN (IF gs.board[newRow][newCol] # null /\ gs.board[newRow][newCol].color # color
                     THEN <<Mv(newRow, newCol)>> ELSE <<>>) \o
                    (IF gs.enPassantTarget # null /\ gs.enPassantTarget.row = newRow
                        /\ gs.enPassantTarget.col = newCol
                     THEN <<[Mv(newRow, newCol) EXCEPT !.enPassant = TRUE]>> ELSE <<>>)
               ELSE <<>>
    IN forward \o diagonal(-1) \o diagonal(1)

getRookMoves(gs, row, col, color) == slideAll(gs.board, row, col, color, rookDirections)

getKnightMoves(gs, row, col, color) == step(gs.board, row, col, color, knightOffsets, TRUE)

getBishopMoves(gs, row, col, color) == slideAll(gs.board, row, col, color, bishopDirections)

getQueenMoves(gs, row, col, color) ==
    getRookMoves(gs, row, col, color) \o getBishopMoves(gs, row, col, color)

\* getCastlingMoves without the test of line 370 (the king has moved).
getCastlingMovesIgnoringKingMoved(gs, row, col, color) ==
    IF isKingInCheck(gs, color) THEN <<>>
    ELSE LET backRank == IF color = "white" THEN 7 ELSE 0
         IN (IF /\ gs.castlingRights[color].kingSide
                /\ ~gs.rookMoved[color].kingSide
                /\ gs.board[backRank][5] = null
                /\ gs.board[backRank][6] = null
                /\ ~isSquareUnderAttack(gs, backRank, 5, color)
                /\ ~isSquareUnderAttack(gs, backRank, 6, color)
             THEN <<[Mv(backRank, 6) EXCEPT !.castling = "king-side"]>> ELSE <<>>)
            \o
            (IF /\ gs.castlingRights[color].queenSide
                /\ ~gs.rookMoved[color].queenSide
                /\ gs.board[backRank][1] = null
                /\ gs.board[backRank][2] = null
                /\ gs.board[backRank][3] = null
                /\ ~isSquareUnderAttack(gs, backRank, 2, color)
                /\ ~isSquareUnderAttack(gs, backRank, 3, color)
             THEN <<[Mv(backRank, 2) EXCEPT !.castling = "queen-side"]>> ELSE <<>>)

\* getCastlingMoves looking only at the king's landing square: the square it
\* passes over (file 5 or 3) is neither tested for a piece nor for an attack.
getCastlingMovesLandingOnly(gs, row, col, color) ==
    IF gs.kingMoved[color] THEN <<>>
    ELSE IF isKingInCheck(gs, color) THEN <<>>
    ELSE LET backRank == IF color = "white" THEN 7 ELSE 0
         IN (IF /\ gs.castlingRights[color].kingSide
                /\ ~gs.rookMoved[color].kingSide
                /\ gs.board[backRank][6] = null
                /\ ~isSquareUnderAttack(gs, backRank, 6, color)
             THEN <<[Mv(backRank, 6) EXCEPT !.castling = "king-side"]>> ELSE <<>>)
            \o
            (IF /\ gs.castlingRights[color].queenSide
                /\ ~gs.rookMoved[color].queenSide
                /\ gs.board[backRank][1] = null
                /\ gs.board[backRank][2] = null
                /\ ~isSquareUnderAttack(gs, backRank, 2, color)
             THEN <<[Mv(backRank, 2) EXCEPT !.castling = "queen-side"]>> ELSE <<>>)

getCastlingMoves(gs, row, col, color) ==
    IF gs.kingMoved[color] THEN <<>>
    ELSE IF isKingInCheck(gs, color) THEN <<>>
    ELSE LET backRank == IF color = "white" THEN 7 ELSE 0
             kingSide ==
                 IF /\ gs.castlingRights[color].kingSide
                    /\ ~gs.rookMoved[color].kingSide
                    /\ gs.board[backRank][5] = null
                    /\ gs.board[backRank][6] = null
                    /\ ~isSquareUnderAttack(gs, backRank, 5, color)
                    /\ ~isSquareUnderAttack(gs, backRank, 6, color)
                 THEN <<[Mv(backRank, 6) EXCEPT !.castling = "king-side"]>> ELSE <<>>
             queenSide ==
                 IF /\ gs.castlingRights[color].queenSide
                    /\ ~gs.rookMoved[color].queenSide
                    /\ gs.board[backRank][1] = null
                    /\ gs.board[backRank][2] = null
                    /\ gs.board[backRank][3] = null
                    /\ ~isSquareUnderAttack(gs, backRank, 2, color)
                    /\ ~isSquareUnderAttack(gs, backRank, 3, color)
                 THEN <<[Mv(backRank, 2) EXCEPT !.castling = "queen-side"]>> ELSE <<>>
         IN kingSide \o queenSide

getKingMoves(gs, row, col, color) ==
    step(gs.board, row, col, color, kingOffsets, TRUE) \o getCastlingMoves(gs, row, col, color)

\* ---- legality filter ----

wouldBeInCheck(gs, fromRow, fromCol, toRow, toCol, color) ==
    LET tempPiece == gs.board[fromRow][fromCol]
        tempBoard == [[gs.board EXCEPT ![toRow][toCol] = tempPiece]
                         EXCEPT ![fromRow][fromCol] = null]
        king == findKing(tempBoard, color)
    IN isSquareUnderAttackTemp(king.row, king.col, color, tempBoard)

\* The switch of lines 192-211: the moves of the piece on (row, col) before
\* the filter of line 214.
pseudoLegalMoves(gs, row, col) ==
    LET piece == gs.board[row][col]
    IN CASE piece.type = "pawn" -> getPawnMoves(gs, row, col, piece.color)
         [] piece.type = "rook" -> getRookMoves(gs, row, col, piece.color)
         [] piece.type = "knight" -> getKnightMoves(gs, row, col, piece.color)
         [] piece.type = "bishop" -> getBishopMoves(gs, row, col, piece.color)
         [] piece.type = "queen" -> getQueenMoves(gs, row, col, piece.color)
         [] piece.type = "king" -> getKingMoves(gs, row, col, piece.color)

getLegalMoves(gs, row, col) ==
    LET piece == gs.board[row][col]
    IN IF piece = null THEN <<>>
       ELSE SelectSeq(pseudoLegalMoves(gs, row, col), LAMBDA move :
                ~wouldBeInCheck(gs, row, col, move.row, move.col, piece.color))

playerHasLegalMoves(gs, color) ==
    \E row \in Rows, col \in Cols :
        /\ gs.board[row][col] # null
        /\ gs.board[row][col].color = color
        /\ Len(getLegalMoves(gs, row, col)) > 0

checkGameStatus(gs) ==
    LET currentColor == gs.currentTurn
        inCheck == isKingInCheck(gs, currentColor)
        hasLegalMoves == playerHasLegalMoves(gs, currentColor)
    IN [gs EXCEPT !.gameStatus =
           IF inCheck
           THEN (IF ~hasLegalMoves THEN "checkmate" ELSE "check")
           ELSE (IF ~hasLegalMoves THEN "stalemate" ELSE "active")]

\* ---- the move executor ----

\* JavaScript undefined: what Array.prototype.find returns when nothing matches.
undefined == [type |-> "undefined"]

find(s, Test(_)) ==
    IF some(s, Test)
    THEN s[CHOOSE i \in DOMAIN s : Test(s[i]) /\ \A j \in 1..(i - 1) : ~Test(s[j])]
    ELSE undefined

\* makeMove without lines 411-414: the pawn taken en passant stays on the board.
makeMoveBoardNoEnPassant(gs, fromRow, fromCol, toRow, toCol) ==
    LET piece == gs.board[fromRow][fromCol]
        move == find(gs.legalMoves, LAMBDA m : m.row = toRow /\ m.col = toCol)
        b0 == gs.board
        \* en passant
        b1 == b0
        \* castling
        backRank == IF piece.color = "white" THEN 7 ELSE 0
        b2 == IF move # undefined /\ move.castling # "none"
              THEN IF move.castling = "king-side"
                   THEN [[b1 EXCEPT ![backRank][5] = b1[backRank][7]]
                            EXCEPT ![backRank][7] = null]
                   ELSE [[b1 EXCEPT ![backRank][3] = b1[backRank][0]]
                            EXCEPT ![backRank][0] = null]
              ELSE b1
        \* move the piece
        b3 == [[b2 EXCEPT ![toRow][toCol] = piece] EXCEPT ![fromRow][fromCol] = null]
        \* pawn promotion
        promotionRow == IF piece.color = "white" THEN 0 ELSE 7
    IN IF piece.type = "pawn" /\ toRow = promotionRow
       THEN [b3 EXCEPT ![toRow][toCol] = P("queen", piece.color)]
       ELSE b3

\* makeMove without lines 458-464: a pawn on the farthest rank stays a pawn.
makeMoveBoardNoPromotion(gs, fromRow, fromCol, toRow, toCol) ==
    LET piece == gs.board[fromRow][fromCol]
        move == find(gs.legalMoves, LAMBDA m : m.row = toRow /\ m.col = toCol)
        b0 == gs.board
        \* en passant
        b1 == IF move # undefined /\ move.enPassant
              THEN LET captureRow == IF piece.color = "white" THEN toRow + 1 ELSE toRow - 1
                   IN [b0 EXCEPT ![captureRow][toCol] = null]
              ELSE b0
        \* castling
        backRank == IF piece.color = "white" THEN 7 ELSE 0
        b2 == IF move # undefined /\ move.castling # "none"
              THEN IF move.castling = "king-side"
                   THEN [[b1 EXCEPT ![backRank][5] = b1[backRank][7]]
                            EXCEPT ![backRank][7] = null]
                   ELSE [[b1 EXCEPT ![backRank][3] = b1[backRank][0]]
                            EXCEPT ![backRank][0] = null]
              ELSE b1
        \* move the piece
        b3 == [[b2 EXCEPT ![toRow][toCol] = piece] EXCEPT ![fromRow][fromCol] = null]
    IN b3

\* Lines 406-464 of makeMove: everything it writes to gameState.board.
makeMoveBoard(gs, fromRow, fromCol, toRow, toCol) ==
    LET piece == gs.board[fromRow][fromCol]
        move == find(gs.legalMoves, LAMBDA m : m.row = toRow /\ m.col = toCol)
        b0 == gs.board
        \* en passant
        b1 == IF move # undefined /\ move.enPassant
              THEN LET captureRow == IF piece.color = "white" THEN toRow + 1 ELSE toRow - 1
                   IN [b0 EXCEPT ![captureRow][toCol] = null]
              ELSE b0
        \* castling
        backRank == IF piece.color = "white" THEN 7 ELSE 0
        b2 == IF move # undefined /\ move.castling # "none"
              THEN IF move.castling = "king-side"
                   THEN [[b1 EXCEPT ![backRank][5] = b1[backRank][7]]
                            EXCEPT ![backRank][7] = null]
                   ELSE [[b1 EXCEPT ![backRank][3] = b1[backRank][0]]
                            EXCEPT ![backRank][0] = null]
              ELSE b1
        \* move the piece
        b3 == [[b2 EXCEPT ![toRow][toCol] = piece] EXCEPT ![fromRow][fromCol] = null]
        \* pawn promotion
        promotionRow == IF piece.color = "white" THEN 0 ELSE 7
    IN IF piece.type = "pawn" /\ toRow = promotionRow
       THEN [b3 EXCEPT ![toRow][toCol] = P("queen", piece.color)]
       ELSE b3

\* makeMove without the assignment of line 433: the target of an earlier double
\* step survives the moves that follow it.
makeMoveFieldsKeepingTarget(gs, fromRow, fromCol, toRow, toCol) ==
    LET piece == gs.board[fromRow][fromCol]
        capturedPiece == gs.board[toRow][toCol]
        backRank == IF piece.color = "white" THEN 7 ELSE 0
    IN [gs EXCEPT
          !.board = makeMoveBoard(gs, fromRow, fromCol, toRow, toCol),
          !.enPassantTarget =
              IF piece.type = "pawn" /\ abs(toRow - fromRow) = 2
              THEN Sq((fromRow + toRow) \div 2, toCol)
              ELSE @,
          !.kingMoved = IF piece.type = "king"
                        THEN [@ EXCEPT ![piece.color] = TRUE] ELSE @,
          !.rookMoved =
              IF piece.type = "rook" /\ fromRow = backRank
              THEN IF fromCol = 0 THEN [@ EXCEPT ![piece.color].queenSide = TRUE]
                   ELSE IF fromCol = 7 THEN [@ EXCEPT ![piece.color].kingSide = TRUE]
                   ELSE @
              ELSE @,
          !.moveHistory = Append(@, [from |-> Sq(fromRow, fromCol),
                                     to |-> Sq(toRow, toCol),
                                     piece |-> piece,
                                     captured |-> capturedPiece]),
          !.currentTurn = IF @ = "white" THEN "black" ELSE "white"]

\* makeMove recording the square the pawn lands on instead of the one it passed.
makeMoveFieldsTargetOnDestination(gs, fromRow, fromCol, toRow, toCol) ==
    LET piece == gs.board[fromRow][fromCol]
        capturedPiece == gs.board[toRow][toCol]
        backRank == IF piece.color = "white" THEN 7 ELSE 0
    IN [gs EXCEPT
          !.board = makeMoveBoard(gs, fromRow, fromCol, toRow, toCol),
          !.enPassantTarget =
              IF piece.type = "pawn" /\ abs(toRow - fromRow) = 2
              THEN Sq(toRow, toCol)
              ELSE null,
          !.kingMoved = IF piece.type = "king"
                        THEN [@ EXCEPT ![piece.color] = TRUE] ELSE @,
          !.rookMoved =
              IF piece.type = "rook" /\ fromRow = backRank
              THEN IF fromCol = 0 THEN [@ EXCEPT ![piece.color].queenSide = TRUE]
                   ELSE IF fromCol = 7 THEN [@ EXCEPT ![piece.color].kingSide = TRUE]
                   ELSE @
              ELSE @,
          !.moveHistory = Append(@, [from |-> Sq(fromRow, fromCol),
                                     to |-> Sq(toRow, toCol),
                                     piece |-> piece,
                                     captured |-> capturedPiece]),
          !.currentTurn = IF @ = "white" THEN "black" ELSE "white"]

\* gameState when makeMove reaches line 476 (everything but the status).
makeMoveFields(gs, fromRow, fromCol, toRow, toCol) ==
    LET piece == gs.board[fromRow][fromCol]
        capturedPiece == gs.board[toRow][toCol]
        backRank == IF piece.color = "white" THEN 7 ELSE 0
    IN [gs EXCEPT
          !.board = makeMoveBoard(gs, fromRow, fromCol, toRow, toCol),
          !.enPassantTarget =
              IF piece.type = "pawn" /\ abs(toRow - fromRow) = 2
              THEN Sq((fromRow + toRow) \div 2, toCol)
              ELSE null,
          !.kingMoved = IF piece.type = "king"
                        THEN [@ EXCEPT ![piece.color] = TRUE] ELSE @,
          !.rookMoved =
              IF piece.type = "rook" /\ fromRow = backRank
              THEN IF fromCol = 0 THEN [@ EXCEPT ![piece.color].queenSide = TRUE]
                   ELSE IF fromCol = 7 THEN [@ EXCEPT ![piece.color].kingSide = TRUE]
                   ELSE @
              ELSE @,
          !.moveHistory = Append(@, [from |-> Sq(fromRow, fromCol),
                                     to |-> Sq(toRow, toCol),
                                     piece |-> piece,
                                     captured |-> capturedPiece]),
          !.currentTurn = IF @ = "white" THEN "black" ELSE "white"]

\* makeMove with checkGameStatus called before the turn is switched.
makeMoveStateStatusFirst(gs, fromRow, fromCol, toRow, toCol) ==
    LET fields == makeMoveFields(gs, fromRow, fromCol, toRow, toCol)
    IN [fields EXCEPT !.gameStatus =
           checkGameStatus([fields EXCEPT !.currentTurn = gs.currentTurn]).gameStatus]

\* gameState when makeMove returns.
makeMoveState(gs, fromRow, fromCol, toRow, toCol) ==
    checkGameStatus(makeMoveFields(gs, fromRow, fromCol, toRow, toCol))

\* The condition of lines 487-489 under which makeMove schedules the computer's move.
schedulesComputerMove(gs) ==
    /\ gs.gameMode = "pvc"
    /\ gs.currentTurn = "black"
    /\ (gs.gameStatus = "active" \/ gs.gameStatus = "check")

\* What JSON.parse reads back from the text JSON.stringify writes for a square
\* of the board: an array element that is undefined is written as null. The
\* other values the program stores (strings, booleans, integers, null, and
\* objects and arrays of these) are read back as they were written.
jsonSquare(v) == IF v = undefined THEN null ELSE v

jsonBoard(board) ==
    [row \in DOMAIN board |-> [col \in DOMAIN board[row] |-> jsonSquare(board[row][col])]]

\* saveGameState leaving the en-passant target out of the record.
saveGameStateWithoutTarget(gs) ==
    [board |-> jsonBoard(gs.board),
     currentTurn |-> gs.currentTurn,
     gameStatus |-> gs.gameStatus,
     moveHistory |-> gs.moveHistory,
     enPassantTarget |-> undefined,
     castlingRights |-> gs.castlingRights,
     kingMoved |-> gs.kingMoved,
     rookMoved |-> gs.rookMoved,
     gameMode |-> gs.gameMode,
     aiDifficulty |-> gs.aiDifficulty]

\* The record saveGameState writes under STORAGE_KEY, as JSON.parse reads it.
saveGameState(gs) ==
    [board |-> jsonBoard(gs.board),
     currentTurn |-> gs.currentTurn,
     gameStatus |-> gs.gameStatus,
     moveHistory |-> gs.moveHistory,
     enPassantTarget |-> gs.enPassantTarget,
     castlingRights |-> gs.castlingRights,
     kingMoved |-> gs.kingMoved,
     rookMoved |-> gs.rookMoved,
     gameMode |-> gs.gameMode,
     aiDifficulty |-> gs.aiDifficulty]

\* selectSquare offering the moves of the piece without the filter of line 214.
selectSquareUnfiltered(gs, row, col) ==
    [gs EXCEPT !.selectedSquare = Sq(row, col),
               !.legalMoves = pseudoLegalMoves(gs, row, col)]

\* The array [row, col] of line 146 is written as the record of its row and
\* its column.
selectSquare(gs, row, col) ==
    [gs EXCEPT !.selectedSquare = Sq(row, col),
               !.legalMoves = getLegalMoves(gs, row, col)]

\* clearSelection handing the turn to the other side as well.
clearSelectionPassingTurn(gs) ==
    [gs EXCEPT !.selectedSquare = null, !.legalMoves = <<>>,
               !.currentTurn = IF @ = "white" THEN "black" ELSE "white"]

clearSelection(gs) ==
    [gs EXCEPT !.selectedSquare = null, !.legalMoves = <<>>]

\* The object literal of resetGame with the mode and difficulty of line 40-41
\* instead of the ones read at lines 1203-1204.
freshGameStateDefaultSettings(gameMode, aiDifficulty) ==
    [board |-> initializeBoard,
     currentTurn |-> "white",
     selectedSquare |-> null,
     legalMoves |-> <<>>,
     gameStatus |-> "active",
     moveHistory |-> <<>>,
     enPassantTarget |-> null,
     castlingRights |-> [white |-> [kingSide |-> TRUE, queenSide |-> TRUE],
                         black |-> [kingSide |-> TRUE, queenSide |-> TRUE]],
     kingMoved |-> [white |-> FALSE, black |-> FALSE],
     rookMoved |-> [white |-> [kingSide |-> FALSE, queenSide |-> FALSE],
                    black |-> [kingSide |-> FALSE, queenSide |-> FALSE]],
     gameMode |-> "pvp",
     aiDifficulty |-> "medium",
     isAiThinking |-> FALSE]

\* The object literal of lines 23-43 (and 1206-1226), with the board set up.
freshGameState(gameMode, aiDifficulty) ==
    [board |-> initializeBoard,
     currentTurn |-> "white",
     selectedSquare |-> null,
     legalMoves |-> <<>>,
     gameStatus |-> "active",
     moveHistory |-> <<>>,
     enPassantTarget |-> null,
     castlingRights |-> [white |-> [kingSide |-> TRUE, queenSide |-> TRUE],
                         black |-> [kingSide |-> TRUE, queenSide |-> TRUE]],
     kingMoved |-> [white |-> FALSE, black |-> FALSE],
     rookMoved |-> [white |-> [kingSide |-> FALSE, queenSide |-> FALSE],
                    black |-> [kingSide |-> FALSE, queenSide |-> FALSE]],
     gameMode |-> gameMode,
     aiDifficulty |-> aiDifficulty,
     isAiThinking |-> FALSE]

\* gameState after the assignments of lines 787-796 for a parsed record; a
\* mode or difficulty that is absent or empty is written "" here and is
\* replaced by the default of lines 795-796.
loadGameState(gs, saved) ==
    [gs EXCEPT !.board = saved.board,
               !.currentTurn = saved.currentTurn,
               !.gameStatus = saved.gameStatus,
               !.moveHistory = saved.moveHistory,
               !.enPassantTarget = saved.enPassantTarget,
               !.castlingRights = saved.castlingRights,
               !.kingMoved = saved.kingMoved,
               !.rookMoved = saved.rookMoved,
               !.gameMode = IF saved.gameMode = "" THEN "pvp" ELSE saved.gameMode,
               !.aiDifficulty = IF saved.aiDifficulty = "" THEN "medium"
                                ELSE saved.aiDifficulty]

\* The gameState object of lines 23-43, as it is when the page has loaded the
\* script and before DOMContentLoaded.
PageGameState == [freshGameState("pvp", "medium") EXCEPT !.board = <<>>]

\* ---- the computer's move ----

getLegalMovesForBoard(gs, board, row, col) ==
    getLegalMoves([gs EXCEPT !.board = board], row, col)

\* The moves the loops of lines 997-1010 push for the squares first..last,
\* square k being row k \div 8, column k % 8.
RECURSIVE allMovesBetween(_, _, _, _, _)
allMovesBetween(gs, board, color, first, last) ==
    IF first < last
    THEN allMovesBetween(gs, board, color, first, (first + last) \div 2)
         \o allMovesBetween(gs, board, color, (first + last) \div 2 + 1, last)
    ELSE LET row == first \div 8
             col == first % 8
             pieceMoves == IF board[row][col] # null /\ board[row][col].color = color
                           THEN getLegalMovesForBoard(gs, board, row, col)
                           ELSE <<>>
         IN [i \in 1..Len(pieceMoves) |->
                [from |-> Sq(row, col),
                 to |-> Sq(pieceMoves[i].row, pieceMoves[i].col),
                 moveData |-> pieceMoves[i]]]

getAllPossibleMoves(gs, board, color) == allMovesBetween(gs, board, color, 0, 63)

\* The values getBestMove can return: null when black has no legal move
\* (line 1115), otherwise one of the moves of its top-level list (lines 1113,
\* 1146-1168); which of them the search prefers is left open here.
getBestMove(gs) ==
    LET aiColor == "black"
        moves == getAllPossibleMoves(gs, gs.board, aiColor)
    IN IF Len(moves) = 0 THEN {null}
       ELSE {moves[i] : i \in DOMAIN moves}

\* ---- position evaluation ----

\* Scores are counted in half points: evaluatePosition adds 15 * |3.5 - row|,
\* the only fraction of the program, so every score of the model is twice the
\* number the program computes, and every comparison of two scores is the same.
Half(x) == 2 * x

\* JavaScript Infinity, above every score.
Infinity == 1000000000

min(x, y) == IF x < y THEN x ELSE y

PIECE_VALUES ==
    [pawn |-> 100, knight |-> 320, bishop |-> 330, rook |-> 500, queen |-> 900,
     king |-> 20000]

PIECE_SQUARE_TABLES ==
    [pawn |-> <<
        <<0, 0, 0, 0, 0, 0, 0, 0>>,
        <<50, 50, 50, 50, 50, 50, 50, 50>>,
        <<10, 10, 20, 30, 30, 20, 10, 10>>,
        <<5, 5, 10, 25, 25, 10, 5, 5>>,
        <<0, 0, 0, 20, 20, 0, 0, 0>>,
        <<5, -5, -10, 0, 0, -10, -5, 5>>,
        <<5, 10, 10, -20, -20, 10, 10, 5>>,
        <<0, 0, 0, 0, 0, 0, 0, 0>> >>,
     knight |-> <<
        <<-50, -40, -30, -30, -30, -30, -40, -50>>,
        <<-40, -20, 0, 0, 0, 0, -20, -40>>,
        <<-30, 0, 10, 15, 15, 10, 0, -30>>,
        <<-30, 5, 15, 20, 20, 15, 5, -30>>,
        <<-30, 0, 15, 20, 20, 15, 0, -30>>,
        <<-30, 5, 10, 15, 15, 10, 5, -30>>,
        <<-40, -20, 0, 5, 5, 0, -20, -40>>,
        <<-50, -40, -30, -30, -30, -30, -40, -50>> >>,
     bishop |-> <<
        <<-20, -10, -10, -10, -10, -10, -10, -20>>,
        <<-10, 0, 0, 0, 0, 0, 0, -10>>,
        <<-10, 0, 5, 10, 10, 5, 0, -10>>,
        <<-10, 5, 5, 10, 10, 5, 5, -10>>,
        <<-10, 0, 10, 10, 10, 10, 0, -10>>,
        <<-10, 10, 10, 10, 10, 10, 10, -10>>,
        <<-10, 5, 0, 0, 0, 0, 5, -10>>,
        <<-20, -10, -10, -10, -10, -10, -10, -20>> >>,
     rook |-> <<
        <<0, 0, 0, 0, 0, 0, 0, 0>>,
        <<5, 10, 10, 10, 10, 10, 10, 5>>,
        <<-5, 0, 0, 0, 0, 0, 0, -5>>,
        <<-5, 0, 0, 0, 0, 0, 0, -5>>,
        <<-5, 0, 0, 0, 0, 0, 0, -5>>,
        <<-5, 0, 0, 0, 0, 0, 0, -5>>,
        <<-5, 0, 0, 0, 0, 0, 0, -5>>,
        <<0, 0, 0, 5, 5, 0, 0, 0>> >>,
     queen |-> <<
        <<-20, -10, -10, -5, -5, -10, -10, -20>>,
        <<-10, 0, 0, 0, 0, 0, 0, -10>>,
        <<-10, 0, 5, 5, 5, 5, 0, -10>>,
        <<-5, 0, 5, 5, 5, 5, 0, -5>>,
        <<0, 0, 5, 5, 5, 5, 0, -5>>,
        <<-10, 5, 5, 5, 5, 5, 0, -10>>,
        <<-10, 0, 5, 0, 0, 0, 0, -10>>,
        <<-20, -10, -10, -5, -5, -10, -10, -20>> >>,
     king |-> <<
        <<-30, -40, -40, -50, -50, -40, -40, -30>>,
        <<-30, -40, -40, -50, -50, -40, -40, -30>>,
        <<-30, -40, -40, -50, -50, -40, -40, -30>>,
        <<-30, -40, -40, -50, -50, -40, -40, -30>>,
        <<-20, -30, -30, -40, -40, -30, -30, -20>>,
        <<-10, -20, -20, -20, -20, -20, -20, -10>>,
        <<20, 20, 0, 0, 0, 0, 20, 20>>,
        <<20, 30, 10, 0, 0, 10, 30, 20>> >>]

KING_ENDGAME_TABLE ==
    << <<-50, -30, -30, -30, -30, -30, -30, -50>>,
       <<-30, -30, 0, 0, 0, 0, -30, -30>>,
       <<-30, -10, 20, 30, 30, 20, -10, -30>>,
       <<-30, -10, 30, 40, 40, 30, -10, -30>>,
       <<-30, -10, 30, 40, 40, 30, -10, -30>>,
       <<-30, -10, 20, 30, 30, 20, -10, -30>>,
       <<-30, -20, -10, 0, 0, -10, -20, -30>>,
       <<-50, -40, -30, -20, -20, -30, -40, -50>> >>

\* The squares of the board that hold a piece, row by row.
occupied(board) ==
    SelectSeq([k \in 1..64 |-> Sq((k - 1) \div 8, (k - 1) % 8)],
              LAMBDA sq : board[sq.row][sq.col] # null)

\* s[1] + ... + s[n] for a sequence of numbers.
RECURSIVE sum(_, _)
sum(s, n) == IF n = 0 THEN 0 ELSE s[n] + sum(s, n - 1)

isEndgame(board) ==
    LET squares == SelectSeq(occupied(board),
                             LAMBDA sq : board[sq.row][sq.col].type # "king")
        queens == Len(SelectSeq(squares, LAMBDA sq : board[sq.row][sq.col].type = "queen"))
        totalMaterial ==
            sum([i \in 1..Len(squares) |->
                    PIECE_VALUES[board[squares[i].row][squares[i].col].type]],
                Len(squares))
    IN queens = 0 \/ totalMaterial < 1600

kingDistance(r1, c1, r2, c2) == abs(r1 - r2) + abs(c1 - c2)

\* The last king the scan of lines 922-930 meets: of the colour when own is
\* TRUE, of the other colour otherwise; (-1, -1) when it meets none.
lastKing(board, color, own) ==
    LET kings == SelectSeq(occupied(board), LAMBDA sq :
                     /\ board[sq.row][sq.col].type = "king"
                     /\ (board[sq.row][sq.col].color = color) = own)
    IN IF kings = <<>> THEN Sq(-1, -1) ELSE kings[Len(kings)]

\* Twice the score evaluatePosition returns.
evaluatePosition(board, color) ==
    LET endgame == isEndgame(board)
        squares == occupied(board)
        totalValue(sq) ==
            LET piece == board[sq.row][sq.col]
                tableRow == IF piece.color = "white" THEN 7 - sq.row ELSE sq.row
                pieceValue == PIECE_VALUES[piece.type]
                positionBonus ==
                    IF piece.type = "king" /\ endgame
                    THEN (IF piece.color = color
                          THEN KING_ENDGAME_TABLE[tableRow + 1][sq.col + 1]
                          ELSE -KING_ENDGAME_TABLE[tableRow + 1][sq.col + 1])
                    ELSE PIECE_SQUARE_TABLES[piece.type][tableRow + 1][sq.col + 1]
            IN IF piece.color = color
               THEN pieceValue + positionBonus
               ELSE -(pieceValue + positionBonus)
        score == sum([i \in 1..Len(squares) |-> totalValue(squares[i])], Len(squares))
        aiKing == lastKing(board, color, TRUE)
        enemyKing == lastKing(board, color, FALSE)
    IN IF endgame /\ aiKing.row # -1 /\ enemyKing.row # -1
       THEN Half(score)
            + max(abs(7 - 2 * enemyKing.row), abs(7 - 2 * enemyKing.col)) * 15
            + Half((14 - kingDistance(aiKing.row, aiKing.col,
                                      enemyKing.row, enemyKing.col)) * 5)
       ELSE Half(score)

\* ---- the search ----

\* The number the comparator of orderMoves gives a move (MVV-LVA).
moveScore(move, board) ==
    LET victim == board[move.to.row][move.to.col]
        attacker == board[move.from.row][move.from.col]
    IN IF victim # null
       THEN PIECE_VALUES[victim.type] * 10
            - (IF attacker # null THEN PIECE_VALUES[attacker.type] ELSE 0)
       ELSE 0

\* Array.prototype.sort with the comparator scoreB - scoreA: higher scores
\* first, moves of equal score in the order they had (the sort is stable).
RECURSIVE orderMoves(_, _)
orderMoves(moves, board) ==
    IF moves = <<>> THEN <<>>
    ELSE LET scores == {moveScore(moves[i], board) : i \in DOMAIN moves}
             top == CHOOSE s \in scores : \A t \in scores : s >= t
         IN SelectSeq(moves, LAMBDA m : moveScore(m, board) = top)
            \o orderMoves(SelectSeq(moves, LAMBDA m : moveScore(m, board) # top), board)

makeMoveOnBoard(board, fromRow, fromCol, toRow, toCol) ==
    LET piece == board[fromRow][fromCol]
    IN [[board EXCEPT ![toRow][toCol] = piece] EXCEPT ![fromRow][fromCol] = null]

isKingInCheckOnBoard(gs, board, color) ==
    isKingInCheck([gs EXCEPT !.board = board], color)

\* minimax reads, through getLegalMovesForBoard, the en-passant target and the
\* castling flags of the live gameState: gs stands for the global object at
\* the time of the call.  maxLoop and minLoop are the two for-loops, entered
\* at move number i with the running alpha, beta and best evaluation.
RECURSIVE minimax(_, _, _, _, _, _, _)
RECURSIVE maxLoop(_, _, _, _, _, _, _, _, _)
RECURSIVE minLoop(_, _, _, _, _, _, _, _, _)
\* The maximizing loop, left as soon as a move improves on alpha.
maxLoopCutOnImprovement(gs, board, depth, alpha, beta, aiColor, orderedMoves, i, maxEval) ==
    IF i > Len(orderedMoves) THEN maxEval
    ELSE LET move == orderedMoves[i]
             newBoard == makeMoveOnBoard(board, move.from.row, move.from.col,
                                         move.to.row, move.to.col)
         IN CHOOSE best \in
                {IF alpha < evaluation
                 THEN max(maxEval, evaluation)
                 ELSE maxLoop(gs, board, depth, max(alpha, evaluation), beta, aiColor,
                              orderedMoves, i + 1, max(maxEval, evaluation)) :
                     evaluation \in {minimax(gs, newBoard, depth - 1, alpha, beta, FALSE,
                                             aiColor)}} : TRUE

minimax(gs, board, depth, alpha, beta, isMaximizing, aiColor) ==
    LET currentColor == IF isMaximizing THEN aiColor
                        ELSE (IF aiColor = "black" THEN "white" ELSE "black")
    IN CHOOSE evaluation \in
           {IF Len(moves) = 0
            THEN (IF isKingInCheckOnBoard(gs, board, currentColor)
                  THEN (IF isMaximizing THEN Half(-100000 - depth * 100)
                        ELSE Half(100000 + depth * 100))
                  ELSE 0)
            ELSE IF depth = 0 THEN evaluatePosition(board, aiColor)
            ELSE IF isMaximizing
                 THEN maxLoop(gs, board, depth, alpha, beta, aiColor,
                              orderMoves(moves, board), 1, -Infinity)
                 ELSE minLoop(gs, board, depth, alpha, beta, aiColor,
                              orderMoves(moves, board), 1, Infinity) :
                moves \in {getAllPossibleMoves(gs, board, currentColor)}} : TRUE

maxLoop(gs, board, depth, alpha, beta, aiColor, orderedMoves, i, maxEval) ==
    IF i > Len(orderedMoves) THEN maxEval
    ELSE LET move == orderedMoves[i]
             newBoard == makeMoveOnBoard(board, move.from.row, move.from.col,
                                         move.to.row, move.to.col)
         IN CHOOSE best \in
                {IF beta <= max(alpha, evaluation)
                 THEN max(maxEval, evaluation)
                 ELSE maxLoop(gs, board, depth, max(alpha, evaluation), beta, aiColor,
                              orderedMoves, i + 1, max(maxEval, evaluation)) :
                     evaluation \in {minimax(gs, newBoard, depth - 1, alpha, beta, FALSE,
                                             aiColor)}} : TRUE

minLoop(gs, board, depth, alpha, beta, aiColor, orderedMoves, i, minEval) ==
    IF i > Len(orderedMoves) THEN minEval
    ELSE LET move == orderedMoves[i]
             newBoard == makeMoveOnBoard(board, move.from.row, move.from.col,
                                         move.to.row, move.to.col)
         IN CHOOSE best \in
                {IF min(beta, evaluation) <= alpha
                 THEN min(minEval, evaluation)
                 ELSE minLoop(gs, board, depth, alpha, min(beta, evaluation), aiColor,
                              orderedMoves, i + 1, min(minEval, evaluation)) :
                     evaluation \in {minimax(gs, newBoard, depth - 1, alpha, beta, TRUE,
                                             aiColor)}} : TRUE

\* The depth getBestMove searches to (lines 1118-1124).
searchDepth(aiDifficulty) ==
    CASE aiDifficulty = "easy" -> 2
      [] aiDifficulty = "medium" -> 3
      [] aiDifficulty = "hard" -> 4
      [] OTHER -> 3

\* The value line 1153-1162 gives a top-level move: its minimax value, less
\* the penalty when it takes back the move before the last one of the history.
moveValue(gs, move, depth) ==
    LET aiColor == "black"
        h == gs.moveHistory
        lastMove == IF Len(h) >= 2 THEN h[Len(h) - 1] ELSE null
        newBoard == makeMoveOnBoard(gs.board, move.from.row, move.from.col,
                                    move.to.row, move.to.col)
    IN minimax(gs, newBoard, depth - 1, -Infinity, Infinity, FALSE, aiColor)
       - (IF /\ lastMove # null
             /\ move.from.row = lastMove.to.row
             /\ move.from.col = lastMove.to.col
             /\ move.to.row = lastMove.from.row
             /\ move.to.col = lastMove.from.col
          THEN Half(300)
          ELSE 0)

\* The loop of lines 1151-1168 when no move is ever taken as the best one.
bestMoveLoopKeepingNull(gs, orderedMoves, depth, i, bestMove, bestValue) ==
    [bestMove |-> null, bestValue |-> -Infinity]

\* The loop of lines 1151-1168, entered at move number i.
RECURSIVE bestMoveLoop(_, _, _, _, _, _)
bestMoveLoop(gs, orderedMoves, depth, i, bestMove, bestValue) ==
    IF i > Len(orderedMoves) THEN [bestMove |-> bestMove, bestValue |-> bestValue]
    ELSE CHOOSE best \in
             {IF value > bestValue
              THEN bestMoveLoop(gs, orderedMoves, depth, i + 1, orderedMoves[i], value)
              ELSE bestMoveLoop(gs, orderedMoves, depth, i + 1, bestMove, bestValue) :
                  value \in {moveValue(gs, orderedMoves[i], depth)}} : TRUE

\* getBestMove as the program computes it: the move it returns (null when
\* black has no legal move) and the value the move was given.
searchBestMove(gs) ==
    LET aiColor == "black"
    IN CHOOSE best \in
           {IF Len(moves) = 0 THEN [bestMove |-> null, bestValue |-> -Infinity]
            ELSE bestMoveLoop(gs, orderMoves(moves, gs.board), searchDepth(gs.aiDifficulty),
                              1, null, -Infinity) :
                moves \in {getAllPossibleMoves(gs, gs.board, aiColor)}} : TRUE

\* ---- what the search leaves in gameState ----

\* getLegalMovesForBoard without line 1024: the board is not put back.
getLegalMovesForBoardStateNoRestore(gs, board, row, col) ==
    [gs EXCEPT !.board = board]

\* gameState when getLegalMovesForBoard returns: the board is replaced (line
\* 1020), getLegalMoves assigns nothing, the board is put back (line 1024).
getLegalMovesForBoardState(gs, board, row, col) ==
    LET originalBoard == gs.board
        swapped == [gs EXCEPT !.board = board]
    IN [swapped EXCEPT !.board = originalBoard]

\* gameState when isKingInCheckOnBoard returns.
isKingInCheckOnBoardState(gs, board, color) ==
    LET originalBoard == gs.board
        swapped == [gs EXCEPT !.board = board]
    IN [swapped EXCEPT !.board = originalBoard]

\* gameState after the loops of getAllPossibleMoves have gone through the
\* squares first..last.
RECURSIVE allMovesBetweenState(_, _, _, _, _)
allMovesBetweenState(gs, board, color, first, last) ==
    IF first < last
    THEN LET half == allMovesBetweenState(gs, board, color, first, (first + last) \div 2)
         IN IF half.board = <<>> THEN half
            ELSE allMovesBetweenState(half, board, color, (first + last) \div 2 + 1, last)
    ELSE IF board[first \div 8][first % 8] # null /\ board[first \div 8][first % 8].color = color
         THEN getLegalMovesForBoardState(gs, board, first \div 8, first % 8)
         ELSE gs

getAllPossibleMovesState(gs, board, color) == allMovesBetweenState(gs, board, color, 0, 63)

\* gameState when minimax returns; maxLoopState and minLoopState are the two
\* for-loops entered at move number i, left where maxLoop and minLoop are.
RECURSIVE minimaxState(_, _, _, _, _, _, _)
RECURSIVE maxLoopState(_, _, _, _, _, _, _, _)
RECURSIVE minLoopState(_, _, _, _, _, _, _, _)
minimaxState(gs, board, depth, alpha, beta, isMaximizing, aiColor) ==
    LET currentColor == IF isMaximizing THEN aiColor
                        ELSE (IF aiColor = "black" THEN "white" ELSE "black")
        moves == getAllPossibleMoves(gs, board, currentColor)
        listed == getAllPossibleMovesState(gs, board, currentColor)
    IN IF Len(moves) = 0
       THEN isKingInCheckOnBoardState(listed, board, currentColor)
       ELSE IF depth = 0 THEN listed
       ELSE IF isMaximizing
            THEN maxLoopState(listed, board, depth, alpha, beta, aiColor,
                              orderMoves(moves, board), 1)
            ELSE minLoopState(listed, board, depth, alpha, beta, aiColor,
                              orderMoves(moves, board), 1)

maxLoopState(gs, board, depth, alpha, beta, aiColor, orderedMoves, i) ==
    IF i > Len(orderedMoves) THEN gs
    ELSE LET move == orderedMoves[i]
             newBoard == makeMoveOnBoard(board, move.from.row, move.from.col,
                                         move.to.row, move.to.col)
             evaluation == minimax(gs, newBoard, depth - 1, alpha, beta, FALSE, aiColor)
             searched == minimaxState(gs, newBoard, depth - 1, alpha, beta, FALSE, aiColor)
         IN IF beta <= max(alpha, evaluation)
            THEN searched
            ELSE maxLoopState(searched, board, depth, max(alpha, evaluation), beta, aiColor,
                              orderedMoves, i + 1)

minLoopState(gs, board, depth, alpha, beta, aiColor, orderedMoves, i) ==
    IF i > Len(orderedMoves) THEN gs
    ELSE LET move == orderedMoves[i]
             newBoard == makeMoveOnBoard(board, move.from.row, move.from.col,
                                         move.to.row, move.to.col)
             evaluation == minimax(gs, newBoard, depth - 1, alpha, beta, TRUE, aiColor)
             searched == minimaxState(gs, newBoard, depth - 1, alpha, beta, TRUE, aiColor)
         IN IF min(beta, evaluation) <= alpha
            THEN searched
            ELSE minLoopState(searched, board, depth, alpha, min(beta, evaluation), aiColor,
                              orderedMoves, i + 1)

\* gameState after the loop of lines 1151-1168, entered at move number i: the
\* board copied at line 1152 is the board gameState holds at that time.
RECURSIVE bestMoveLoopState(_, _, _, _)
bestMoveLoopState(gs, orderedMoves, depth, i) ==
    IF i > Len(orderedMoves) THEN gs
    ELSE LET move == orderedMoves[i]
             newBoard == makeMoveOnBoard(gs.board, move.from.row, move.from.col,
                                         move.to.row, move.to.col)
             searched == minimaxState(gs, newBoard, depth - 1, -Infinity, Infinity, FALSE,
                                      "black")
         IN IF searched.board = <<>> THEN searched
            ELSE bestMoveLoopState(searched, orderedMoves, depth, i + 1)

\* gameState when getBestMove returns.
getBestMoveState(gs) ==
    LET aiColor == "black"
        moves == getAllPossibleMoves(gs, gs.board, aiColor)
        listed == getAllPossibleMovesState(gs, gs.board, aiColor)
    IN IF Len(moves) = 0 THEN listed
       ELSE bestMoveLoopState(listed, orderMoves(moves, gs.board),
                              searchDepth(gs.aiDifficulty), 1)

\* ---- bounds of the exploration ----

\* makeMove calls explored per page load.
MaxMoves == 2

\* The squares the explored clicks land on.
ClickSquares ==
    {Sq(7, 4), Sq(7, 6), Sq(0, 4), Sq(0, 6), Sq(0, 5), Sq(1, 6), Sq(0, 3), Sq(4, 7),
     Sq(1, 1), Sq(7, 7), Sq(3, 3), Sq(2, 2), Sq(6, 4), Sq(4, 4), Sq(7, 2), Sq(0, 2)}

\* ---- games played before the page was (re)loaded ----

\* One click-to-move turn: select (fromRow, fromCol), click (toRow, toCol).
playMove(gs, m) ==
    clearSelection(makeMoveState(selectSquare(gs, m[1], m[2]), m[1], m[2], m[3], m[4]))

RECURSIVE playGame(_, _)
playGame(gs, moves) ==
    IF moves = <<>> THEN gs ELSE playGame(playMove(gs, Head(moves)), Tail(moves))

\* Every move of the game is one the click handler accepts when it is played.
RECURSIVE acceptedGame(_, _)
acceptedGame(gs, moves) ==
    \/ moves = <<>>
    \/ LET m == Head(moves)
       IN /\ gs.board[m[1]][m[2]] # null
          /\ gs.board[m[1]][m[2]].color = gs.currentTurn
          /\ gs.gameStatus \in {"active", "check"}
          /\ some(getLegalMoves(gs, m[1], m[2]), LAMBDA x : x.row = m[3] /\ x.col = m[4])
          /\ acceptedGame(playMove(gs, m), Tail(moves))

\* 1. d4 a5 2. d5 Ra6 3. Kd2 Rh6 4. Kc3 Rh5 5. Kc4 h6 6. Kb5 c5
GameEnPassant ==
    <<<<6, 3, 4, 3>>, <<1, 0, 3, 0>>, <<4, 3, 3, 3>>, <<0, 0, 2, 0>>,
      <<7, 4, 6, 3>>, <<2, 0, 2, 7>>, <<6, 3, 5, 2>>, <<2, 7, 3, 7>>,
      <<5, 2, 4, 2>>, <<1, 7, 2, 7>>, <<4, 2, 3, 1>>, <<1, 2, 3, 2>>>>

\* 1. g4 b6 2. Bh3 Bb7 3. Nf3 e6 4. Nd4
GameCornerRook ==
    <<<<6, 6, 4, 6>>, <<1, 1, 2, 1>>, <<7, 5, 5, 7>>, <<0, 2, 1, 1>>,
      <<7, 6, 5, 5>>, <<1, 4, 2, 4>>, <<5, 5, 4, 3>>>>

\* 1. Nf3 Nf6 2. g3 g6 3. Bg2 Bg7 4. Kf1 Rg8 5. Ke1 Rh8
GameMovedBack ==
    <<<<7, 6, 5, 5>>, <<0, 6, 2, 5>>, <<6, 6, 5, 6>>, <<1, 6, 2, 6>>,
      <<7, 5, 6, 6>>, <<0, 5, 1, 6>>, <<7, 4, 7, 5>>, <<0, 7, 0, 6>>,
      <<7, 5, 7, 4>>, <<0, 6, 0, 7>>>>

\* 1. Nf3 Nf6 2. g3 g6 3. Bg2
GameCastle ==
    <<<<7, 6, 5, 5>>, <<0, 6, 2, 5>>, <<6, 6, 5, 6>>, <<1, 6, 2, 6>>, <<7, 5, 6, 6>>>>

\* 1. f3 e5 2. g4
GameFoolsMate ==
    <<<<6, 5, 5, 5>>, <<1, 4, 3, 4>>, <<6, 6, 4, 6>>>>

\* 1. d4 d5 2. Nc3 Nc6 3. Bf4 Bf5 4. Qd2 Qd7
GameLongCastle ==
    <<<<6, 3, 4, 3>>, <<1, 3, 3, 3>>, <<7, 1, 5, 2>>, <<0, 1, 2, 2>>,
      <<7, 2, 4, 5>>, <<0, 2, 3, 5>>, <<7, 3, 6, 3>>, <<0, 3, 1, 3>>>>

\* 1. e4 a6 2. e5 a5 3. Ke2 a4 4. Ke3 h6 5. Ke4 d5+
GameCheckingPawn ==
    <<<<6, 4, 4, 4>>, <<1, 0, 2, 0>>, <<4, 4, 3, 4>>, <<2, 0, 3, 0>>,
      <<7, 4, 6, 4>>, <<3, 0, 4, 0>>, <<6, 4, 5, 4>>, <<1, 7, 2, 7>>,
      <<5, 4, 4, 4>>, <<1, 3, 3, 3>>>>

\* 1. a4 b5 2. axb5 Nf6 3. b6 Ng8 4. b7 Nf6
GamePromotion ==
    <<<<6, 0, 4, 0>>, <<1, 1, 3, 1>>, <<4, 0, 3, 1>>, <<0, 6, 2, 5>>,
      <<3, 1, 2, 1>>, <<2, 5, 0, 6>>, <<2, 1, 1, 1>>, <<0, 6, 2, 5>>>>

SavedGames ==
    {GameEnPassant, GameCornerRook, GameMovedBack, GameCastle, GameFoolsMate, GameLongCastle,
     GameCheckingPawn, GamePromotion}

\* ---- the state machine ----

\* DOMContentLoaded (lines 1234-1266): the saved record of an earlier game is
\* loaded, or the board is set up when there is none.
Init ==
    /\ \/ /\ localStorage = null
          /\ gameState = freshGameState("pvp", "medium")
       \/ \E game \in SavedGames :
             /\ localStorage = saveGameState(playGame(freshGameState("pvp", "medium"), game))
             /\ gameState = loadGameState([freshGameState("pvp", "medium") EXCEPT !.board = <<>>],
                                          localStorage)
    /\ timers = 0
    /\ callbacks = 0
    /\ executed = 0

\* The whole of makeMove as a step: the new gameState, the saved record and
\* the timer of line 490.
MakeMoveStep(gs, fromRow, fromCol, toRow, toCol, limit) ==
    LET after == makeMoveState(gs, fromRow, fromCol, toRow, toCol)
    IN /\ executed < limit
       /\ gameState' = clearSelection(after)
       /\ localStorage' = saveGameState(after)
       /\ timers' = IF schedulesComputerMove(after) THEN timers + 1 ELSE timers
       /\ executed' = executed + 1

\* The guard of lines 92-104 without the tests of lines 97 and 102.
clickIgnoredOnlyWhenOver(gs) ==
    gs.gameStatus = "checkmate" \/ gs.gameStatus = "stalemate"

\* The guard of lines 92-104: the click is ignored.
clickIgnored(gs) ==
    \/ gs.gameStatus = "checkmate" \/ gs.gameStatus = "stalemate"
    \/ gs.isAiThinking
    \/ (gs.gameMode = "pvc" /\ gs.currentTurn = "black")

HandleSquareClick(row, col, limit) ==
    LET clickedPiece == gameState.board[row][col]
    IN IF clickIgnored(gameState) THEN UNCHANGED vars
       ELSE IF gameState.selectedSquare # null
       THEN LET selectedRow == gameState.selectedSquare.row
                selectedCol == gameState.selectedSquare.col
                isLegalMove == some(gameState.legalMoves,
                                    LAMBDA move : move.row = row /\ move.col = col)
            IN IF isLegalMove
               THEN /\ MakeMoveStep(gameState, selectedRow, selectedCol, row, col, limit)
                    /\ UNCHANGED callbacks
               ELSE /\ gameState' =
                         IF (selectedRow = row /\ selectedCol = col) \/ clickedPiece = null
                         THEN clearSelection(gameState)
                         ELSE IF clickedPiece.color = gameState.currentTurn
                              THEN selectSquare(gameState, row, col)
                              ELSE clearSelection(gameState)
                    /\ UNCHANGED <<localStorage, timers, callbacks, executed>>
       ELSE /\ gameState' =
                 IF clickedPiece # null /\ clickedPiece.color = gameState.currentTurn
                 THEN selectSquare(gameState, row, col)
                 ELSE gameState
            /\ UNCHANGED <<localStorage, timers, callbacks, executed>>

\* A callback that leaves the flag as it finds it.
finishThinkingLeavingFlag(gs) == gs

\* Line 1193, the last of the callback.
finishThinking(gs) == [gs EXCEPT !.isAiThinking = FALSE]

\* A timer of line 490 fires: makeComputerMove up to its own setTimeout.
MakeComputerMove ==
    /\ timers > 0
    /\ timers' = timers - 1
    /\ gameState' = [gameState EXCEPT !.isAiThinking = TRUE]
    /\ callbacks' = callbacks + 1
    /\ UNCHANGED <<localStorage, executed>>

\* The callback of lines 1180-1194 runs.
ComputerMoveCallback(limit) ==
    /\ callbacks > 0
    /\ callbacks' = callbacks - 1
    /\ \E bestMove \in getBestMove(gameState) :
          IF bestMove # null
          THEN LET selected ==
                     [gameState EXCEPT
                        !.selectedSquare = Sq(bestMove.from.row, bestMove.from.col),
                        !.legalMoves = getLegalMoves(gameState, bestMove.from.row,
                                                     bestMove.from.col)]
                   after == makeMoveState(selected, bestMove.from.row, bestMove.from.col,
                                          bestMove.to.row, bestMove.to.col)
               IN /\ executed < limit
                  /\ gameState' = finishThinking(clearSelection(after))
                  /\ localStorage' = saveGameState(after)
                  /\ timers' = IF schedulesComputerMove(after) THEN timers + 1 ELSE timers
                  /\ executed' = executed + 1
          ELSE /\ gameState' = finishThinking(gameState)
               /\ UNCHANGED <<localStorage, timers, executed>>

\* resetGame (lines 1198-1231) on the given mode and difficulty.
resetGame(gameMode, aiDifficulty) ==
    /\ localStorage' = null
    /\ gameState' = freshGameState(gameMode, aiDifficulty)
    /\ UNCHANGED <<timers, callbacks, executed>>

\* The reset button.
ResetGame == resetGame(gameState.gameMode, gameState.aiDifficulty)

\* The game-mode radio buttons (lines 1272-1288).
ChangeGameMode(value) ==
    /\ value # gameState.gameMode
    /\ resetGame(value, gameState.aiDifficulty)

\* The difficulty radio buttons (lines 1291-1298).
ChangeDifficulty(value) ==
    /\ value # gameState.aiDifficulty
    /\ resetGame(gameState.gameMode, value)

Next ==
    \/ \E sq \in ClickSquares : HandleSquareClick(sq.row, sq.col, MaxMoves)
    \/ MakeComputerMove
    \/ ComputerMoveCallback(MaxMoves)
    \/ ResetGame
    \/ \E value \in {"pvp", "pvc"} : ChangeGameMode(value)
    \/ \E value \in {"easy", "medium", "hard"} : ChangeDifficulty(value)

Spec == Init /\ [][Next]_vars

\* ---- a page load from a saved record that may be corrupt ----

\* A text under STORAGE_KEY that JSON.parse rejects.
Unparseable == [type |-> "unparseable"]

\* The text "null": JSON.parse accepts it and returns null.
JsonNull == [type |-> "json null"]

\* The text "{}": a record with none of the ten fields. A field the record
\* lacks reads as undefined; for the fields that hold strings, which the model
\* must keep strings, it is written "".
EmptyObject ==
    [board |-> undefined,
     currentTurn |-> "",
     gameStatus |-> "",
     moveHistory |-> undefined,
     enPassantTarget |-> undefined,
     castlingRights |-> undefined,
     kingMoved |-> undefined,
     rookMoved |-> undefined,
     gameMode |-> "",
     aiDifficulty |-> ""]

\* The record of a game from which the board has been removed.
withoutBoard(saved) == [saved EXCEPT !.board = undefined]

\* The saved games the explored page loads start from, and the one whose
\* record has lost its board.
StoredGames ==
    {playGame(freshGameState("pvp", "medium"), game) : game \in SavedGames}

BoardlessGame == playGame(freshGameState("pvc", "easy"), GameCastle)

\* What loadGameState returns: false when nothing is stored (line 784), when
\* JSON.parse throws (785) and when the parsed value is null, so that reading
\* parsed.board throws (787); true otherwise, the record holding the fields or
\* not.
loadGameStateReturn(stored) ==
    IF "type" \in DOMAIN stored THEN FALSE ELSE TRUE

\* gameState when the DOMContentLoaded listener has run lines 1235-1266: the
\* loaded fields, or the board of initializeBoard when loadGameState returned
\* false (in which case it assigned nothing).
DOMContentLoaded(stored) ==
    IF loadGameStateReturn(stored)
    THEN loadGameState(PageGameState, stored)
    ELSE [PageGameState EXCEPT !.board = initializeBoard]

\* renderBoard (line 74) reads gameState.board[row][col]: it throws when there
\* is no board, and then the listener stops at line 1262, before any square
\* and any handler of lines 1269-1298 exists.
renderBoardThrows(gs) == gs.board = undefined

InitLoad ==
    /\ \/ \E stored \in {null, Unparseable, JsonNull} : localStorage = stored
       \/ localStorage = EmptyObject
       \/ localStorage = withoutBoard(saveGameState(BoardlessGame))
       \/ \E gs \in StoredGames : localStorage = saveGameState(gs)
    /\ gameState = DOMContentLoaded(localStorage)
    /\ timers = 0
    /\ callbacks = 0
    /\ executed = 0

\* The steps of Next, on a page whose listener has run to its end.
NextLoad ==
    \/ /\ ~renderBoardThrows(gameState)
       /\ \E sq \in ClickSquares : HandleSquareClick(sq.row, sq.col, MaxMoves)
    \/ /\ ~renderBoardThrows(gameState)
       /\ MakeComputerMove
    \/ /\ ~renderBoardThrows(gameState)
       /\ ComputerMoveCallback(MaxMoves)
    \/ /\ ~renderBoardThrows(gameState)
       /\ ResetGame
    \/ /\ ~renderBoardThrows(gameState)
       /\ \E value \in {"pvp", "pvc"} : ChangeGameMode(value)
    \/ /\ ~renderBoardThrows(gameState)
       /\ \E value \in {"easy", "medium", "hard"} : ChangeDifficulty(value)

SpecLoad == InitLoad /\ [][NextLoad]_vars

\* ---- games against the computer whose timers are served ----

\* Moves by click explored per page load in SpecLive.
MaxLiveMoves == 1

\* The user resets and changes the mode until move MaxLiveMoves + 1 is made.
\* From then on a pending timer adds at most two moves to the game (one made
\* out of turn schedules one more timer, line 490), and no callback of
\* SpecLive is held back by this limit.
LiveLimit == 3 * (MaxLiveMoves + 1) + 1

\* e2, e4, g1, f3.
LiveClickSquares == {Sq(6, 4), Sq(4, 4), Sq(7, 6), Sq(5, 5)}

\* A game against the computer when makeMove has saved white's first move
\* (line 481), the computer's answer still to come; and when the computer has
\* answered.
GameAwaitingComputer == <<<<6, 4, 4, 4>>>>

GameComputerAnswered == <<<<6, 4, 4, 4>>, <<1, 4, 3, 4>>>>

\* DOMContentLoaded (lines 1234-1266) on a first visit, and on a visit that
\* finds the record of a game against the computer, left at either point. The
\* listener sets no timer.
InitLive ==
    /\ \/ /\ localStorage = null
          /\ gameState = freshGameState("pvp", "medium")
       \/ \E game \in {GameAwaitingComputer, GameComputerAnswered} :
             /\ localStorage = saveGameState(playGame(freshGameState("pvc", "easy"), game))
             /\ gameState = loadGameState(PageGameState, localStorage)
    /\ timers = 0
    /\ callbacks = 0
    /\ executed = 0

NextLive ==
    \/ \E sq \in LiveClickSquares : HandleSquareClick(sq.row, sq.col, MaxLiveMoves)
    \/ MakeComputerMove
    \/ ComputerMoveCallback(LiveLimit)
    \/ /\ executed <= MaxLiveMoves
       /\ ResetGame
    \/ /\ executed <= MaxLiveMoves
       /\ \E value \in {"pvp", "pvc"} : ChangeGameMode(value)

\* The callback of line 1180 runs: the step of ComputerMoveCallback, told by
\* the count of callbacks, which no other step lowers.
CallbackRuns ==
    /\ callbacks > 0
    /\ callbacks' = callbacks - 1

\* setTimeout: a timer that is set fires, and so does the callback
\* makeComputerMove sets (line 1180). Nothing obliges the user to click.
SpecLive ==
    /\ InitLive
    /\ [][NextLive]_vars
    /\ WF_timers(MakeComputerMove)
    /\ WF_callbacks(CallbackRuns)

\* ---- a fresh game in which a computer move outlives a reset and a game ----

\* makeMove calls explored per page load in SpecStale.
MaxStaleMoves == 6

\* f2, f3, g2, g4, e7, e5, d8, h4: the squares of the fool's mate; and e1.
StaleClickSquares ==
    {Sq(6, 5), Sq(5, 5), Sq(6, 6), Sq(4, 6), Sq(1, 4), Sq(3, 4), Sq(0, 3), Sq(4, 7), Sq(7, 4)}

InitStale ==
    /\ localStorage = null
    /\ gameState = freshGameState("pvp", "medium")
    /\ timers = 0
    /\ callbacks = 0
    /\ executed = 0

\* The schedule SpecStale explores: the user is quicker than the 500 ms timer,
\* which fires only once the game on the board is over.
LateComputerMove ==
    /\ gameState.gameStatus \in {"checkmate", "stalemate"}
    /\ MakeComputerMove

\* The timer of a game against the computer fires in the two-player game
\* that replaced it, after 1. f3 e5.
StaleComputerMove ==
    /\ gameState.gameMode = "pvp"
    /\ Len(gameState.moveHistory) = 2
    /\ gameState.moveHistory[1].to = Sq(5, 5)
    /\ gameState.moveHistory[2].to = Sq(3, 4)
    /\ MakeComputerMove

NextStale ==
    \/ \E sq \in StaleClickSquares : HandleSquareClick(sq.row, sq.col, MaxStaleMoves)
    \/ LateComputerMove
    \/ StaleComputerMove
    \/ ComputerMoveCallback(MaxStaleMoves)
    \/ ResetGame
    \/ \E value \in {"pvp", "pvc"} : ChangeGameMode(value)

SpecStale == InitStale /\ [][NextStale]_vars

\* ---- games against the computer, resumed from a saved record ----

\* A game at difficulty easy, black's moves being those getBestMove returned.
\* It leaves white Kg1 and pawns d7, g5 against black Kf4 and pawn f5.
GameEasy ==
    <<<<6, 5, 4, 5>>, <<0, 1, 2, 2>>, <<6, 0, 4, 0>>, <<0, 6, 2, 5>>, <<6, 2, 4, 2>>,
      <<2, 2, 4, 3>>, <<6, 1, 4, 1>>, <<2, 5, 4, 4>>, <<7, 2, 6, 1>>, <<4, 3, 2, 4>>,
      <<6, 4, 5, 4>>, <<0, 0, 0, 1>>, <<6, 7, 4, 7>>, <<0, 7, 0, 6>>, <<4, 5, 3, 5>>,
      <<4, 4, 6, 3>>, <<7, 3, 6, 3>>, <<2, 4, 4, 5>>, <<5, 4, 4, 5>>, <<0, 1, 0, 0>>,
      <<6, 6, 4, 6>>, <<0, 6, 0, 7>>, <<4, 1, 3, 1>>, <<0, 0, 0, 1>>, <<4, 6, 3, 6>>,
      <<0, 7, 0, 6>>, <<4, 2, 3, 2>>, <<0, 1, 0, 0>>, <<4, 7, 3, 7>>, <<0, 6, 0, 7>>,
      <<3, 7, 2, 7>>, <<0, 0, 0, 1>>, <<2, 7, 1, 6>>, <<0, 5, 1, 6>>, <<6, 1, 1, 6>>,
      <<0, 7, 0, 6>>, <<7, 7, 1, 7>>, <<0, 1, 0, 0>>, <<4, 0, 3, 0>>, <<1, 3, 2, 3>>,
      <<6, 3, 3, 3>>, <<0, 2, 1, 3>>, <<3, 3, 1, 1>>, <<0, 6, 1, 6>>, <<1, 7, 1, 6>>,
      <<1, 3, 3, 5>>, <<1, 6, 0, 6>>, <<0, 4, 1, 3>>, <<3, 2, 2, 2>>, <<1, 3, 2, 4>>,
      <<7, 5, 4, 2>>, <<2, 3, 3, 3>>, <<0, 6, 0, 3>>, <<0, 0, 0, 3>>, <<1, 1, 1, 2>>,
      <<0, 3, 2, 3>>, <<1, 2, 0, 2>>, <<2, 3, 1, 3>>, <<4, 2, 3, 3>>, <<2, 4, 3, 3>>,
      <<2, 2, 1, 3>>, <<3, 3, 4, 3>>, <<0, 2, 1, 2>>, <<3, 5, 7, 1>>, <<1, 2, 1, 0>>,
      <<4, 3, 5, 2>>, <<7, 0, 7, 1>>, <<5, 2, 6, 2>>, <<7, 1, 7, 0>>, <<6, 2, 6, 1>>,
      <<1, 0, 4, 3>>, <<6, 1, 5, 1>>, <<4, 3, 4, 4>>, <<5, 1, 5, 2>>, <<4, 4, 1, 4>>,
      <<1, 5, 3, 5>>, <<1, 4, 4, 1>>, <<5, 2, 4, 1>>, <<7, 0, 7, 1>>, <<4, 1, 3, 0>>,
      <<7, 1, 4, 1>>, <<3, 0, 4, 1>>, <<7, 6, 6, 4>>, <<4, 1, 3, 1>>, <<6, 4, 4, 3>>,
      <<3, 1, 4, 2>>, <<7, 4, 6, 5>>, <<4, 2, 4, 3>>, <<6, 5, 7, 5>>, <<4, 3, 4, 4>>,
      <<7, 5, 7, 6>>, <<4, 4, 4, 5>>>>

\* A game at difficulty medium, black's moves being those getBestMove
\* returned. It leaves white Kg2 and pawn a5 against black Kg4 and pawn b5.
GameMedium ==
    <<<<6, 1, 4, 1>>, <<0, 1, 2, 2>>, <<6, 2, 5, 2>>, <<0, 6, 2, 5>>, <<7, 3, 4, 0>>,
      <<2, 5, 4, 4>>, <<4, 1, 3, 1>>, <<4, 4, 3, 2>>, <<4, 0, 4, 2>>, <<3, 2, 2, 4>>,
      <<3, 1, 2, 2>>, <<1, 3, 2, 2>>, <<6, 7, 4, 7>>, <<0, 0, 0, 1>>, <<6, 0, 4, 0>>,
      <<0, 3, 1, 3>>, <<6, 4, 4, 4>>, <<2, 4, 4, 5>>, <<6, 3, 4, 3>>, <<4, 5, 2, 6>>,
      <<4, 7, 3, 7>>, <<1, 3, 2, 4>>, <<4, 2, 2, 4>>, <<0, 2, 2, 4>>, <<6, 6, 5, 6>>,
      <<0, 1, 0, 3>>, <<4, 0, 3, 0>>, <<0, 3, 1, 3>>, <<6, 5, 5, 5>>, <<2, 2, 3, 2>>,
      <<7, 5, 3, 1>>, <<1, 2, 2, 2>>, <<3, 1, 4, 0>>, <<1, 1, 3, 1>>, <<4, 0, 6, 2>>,
      <<3, 2, 4, 3>>, <<5, 2, 4, 3>>, <<1, 3, 4, 3>>, <<7, 2, 5, 4>>, <<4, 3, 4, 2>>,
      <<6, 2, 5, 1>>, <<4, 2, 4, 1>>, <<5, 1, 2, 4>>, <<1, 5, 2, 4>>, <<3, 7, 2, 6>>,
      <<4, 1, 5, 1>>, <<5, 4, 1, 0>>, <<0, 4, 1, 3>>, <<7, 7, 1, 7>>, <<5, 1, 7, 1>>,
      <<7, 0, 7, 1>>, <<0, 7, 1, 7>>, <<2, 6, 1, 7>>, <<1, 3, 2, 3>>, <<5, 5, 4, 5>>,
      <<2, 4, 3, 4>>, <<4, 5, 3, 5>>, <<1, 4, 2, 4>>, <<1, 0, 0, 1>>, <<2, 3, 1, 4>>,
      <<0, 1, 3, 4>>, <<1, 4, 1, 3>>, <<7, 1, 7, 3>>, <<1, 3, 0, 4>>, <<3, 5, 2, 4>>,
      <<0, 5, 4, 1>>, <<7, 4, 7, 5>>, <<0, 4, 0, 5>>, <<7, 3, 0, 3>>, <<0, 5, 1, 4>>,
      <<0, 3, 4, 3>>, <<4, 1, 5, 2>>, <<4, 3, 1, 3>>, <<1, 4, 2, 4>>, <<3, 4, 5, 2>>,
      <<2, 4, 1, 3>>, <<5, 2, 1, 6>>, <<1, 3, 1, 4>>, <<1, 6, 0, 5>>, <<1, 4, 0, 5>>,
      <<7, 6, 6, 4>>, <<0, 5, 1, 6>>, <<4, 4, 3, 4>>, <<1, 6, 1, 7>>, <<7, 5, 6, 6>>,
      <<1, 7, 2, 6>>, <<6, 4, 5, 2>>, <<2, 6, 3, 5>>, <<5, 2, 3, 1>>, <<2, 2, 3, 1>>,
      <<5, 6, 4, 6>>, <<3, 5, 3, 4>>, <<6, 6, 6, 7>>, <<3, 4, 4, 5>>, <<6, 7, 6, 6>>,
      <<4, 5, 4, 6>>>>

\* A two-player game that leaves white Ke1, Ra1 and pawns e4, e5, h4 against
\* black Ke7, Rh8, Bd7 and pawns f4, h5, the white king and the rook a1 never
\* having moved.
GameRookHome ==
    <<<<6, 5, 4, 5>>, <<1, 7, 3, 7>>, <<6, 1, 4, 1>>, <<1, 4, 3, 4>>, <<4, 5, 3, 4>>,
      <<1, 1, 3, 1>>, <<6, 3, 4, 3>>, <<0, 5, 4, 1>>, <<7, 1, 5, 2>>, <<4, 1, 5, 2>>,
      <<7, 2, 6, 3>>, <<1, 0, 3, 0>>, <<6, 3, 5, 2>>, <<0, 6, 1, 4>>, <<5, 2, 3, 0>>,
      <<1, 2, 3, 2>>, <<3, 0, 0, 3>>, <<3, 2, 4, 3>>, <<6, 7, 4, 7>>, <<0, 4, 0, 3>>,
      <<7, 3, 4, 3>>, <<0, 0, 6, 0>>, <<6, 4, 5, 4>>, <<6, 0, 6, 2>>, <<4, 3, 1, 3>>,
      <<0, 1, 1, 3>>, <<7, 5, 3, 1>>, <<6, 2, 6, 6>>, <<3, 1, 1, 3>>, <<0, 2, 1, 3>>,
      <<5, 4, 4, 4>>, <<6, 6, 7, 6>>, <<7, 7, 7, 6>>, <<1, 5, 3, 5>>, <<7, 6, 1, 6>>,
      <<3, 5, 4, 5>>, <<1, 6, 1, 4>>, <<0, 3, 1, 4>>>>

\* The same game, continued by Ra1-b1 Rh8-g8, Rb1-a1 Rg8-h8: the same board,
\* the rook a1 having moved.
GameRookBack ==
    GameRookHome \o <<<<7, 0, 7, 1>>, <<0, 7, 0, 6>>, <<7, 1, 7, 0>>, <<0, 6, 0, 7>>>>

\* 1. e4 e5 2. Bc4 Nc6 3. Qh5 Nf6 4. Qxf7#: black has no legal move.
GameBlackMated ==
    <<<<6, 4, 4, 4>>, <<1, 4, 3, 4>>, <<7, 5, 4, 2>>, <<0, 1, 2, 2>>,
      <<7, 3, 3, 7>>, <<0, 6, 2, 5>>, <<3, 7, 1, 5>>>>

SearchGames ==
    {[gameMode |-> "pvp", aiDifficulty |-> "medium", moves |-> GameBlackMated],
     [gameMode |-> "pvc", aiDifficulty |-> "easy", moves |-> GameEasy],
     [gameMode |-> "pvc", aiDifficulty |-> "medium", moves |-> GameMedium],
     [gameMode |-> "pvp", aiDifficulty |-> "medium", moves |-> GameRookHome],
     [gameMode |-> "pvp", aiDifficulty |-> "medium", moves |-> GameRookBack]}

\* The state a game leaves, the game being played half by half; no move is
\* played once the game is over.
RECURSIVE replay(_, _)
replay(gs, moves) ==
    IF Len(moves) <= 1 THEN playGame(gs, moves)
    ELSE LET half == replay(gs, SubSeq(moves, 1, Len(moves) \div 2))
         IN IF half.gameStatus \in {"checkmate", "stalemate"} THEN half
            ELSE replay(half, SubSeq(moves, Len(moves) \div 2 + 1, Len(moves)))

\* makeMove calls explored per page load in SpecSearch.
MaxSearchMoves == 3

\* d7, d8, g5, g6, a5, a6, the squares c1, e1, f1, g1, f2, g2 of the white
\* king, and g8, h8.
SearchClickSquares ==
    {Sq(1, 3), Sq(0, 3), Sq(3, 6), Sq(2, 6), Sq(3, 0), Sq(2, 0),
     Sq(7, 2), Sq(7, 4), Sq(7, 5), Sq(7, 6), Sq(6, 5), Sq(6, 6), Sq(0, 6), Sq(0, 7)}

InitSearch ==
    /\ \E game \in SearchGames :
          /\ localStorage = saveGameState(replay(freshGameState(game.gameMode,
                                                                 game.aiDifficulty),
                                                 game.moves))
          /\ gameState = loadGameState([freshGameState("pvp", "medium") EXCEPT !.board = <<>>],
                                       localStorage)
    /\ timers = 0
    /\ callbacks = 0
    /\ executed = 0

\* The timer of makeMove fires (within the explored number of moves).
SearchMakeComputerMove ==
    /\ executed < MaxSearchMoves - 1
    /\ MakeComputerMove

\* The callback of makeComputerMove (lines 1180-1194), with the move that
\* getBestMove computes.
SearchComputerMoveCallback(limit) ==
    /\ callbacks > 0
    /\ callbacks' = callbacks - 1
    /\ \E bestMove \in {searchBestMove(gameState).bestMove} :
          IF bestMove # null
          THEN LET selected ==
                     [gameState EXCEPT
                        !.selectedSquare = Sq(bestMove.from.row, bestMove.from.col),
                        !.legalMoves = getLegalMoves(gameState, bestMove.from.row,
                                                     bestMove.from.col)]
                   after == makeMoveState(selected, bestMove.from.row, bestMove.from.col,
                                          bestMove.to.row, bestMove.to.col)
               IN /\ executed < limit
                  /\ gameState' = finishThinking(clearSelection(after))
                  /\ localStorage' = saveGameState(after)
                  /\ timers' = IF schedulesComputerMove(after) THEN timers + 1 ELSE timers
                  /\ executed' = executed + 1
          ELSE /\ gameState' = finishThinking(gameState)
               /\ UNCHANGED <<localStorage, timers, executed>>

NextSearch ==
    \/ \E sq \in SearchClickSquares : HandleSquareClick(sq.row, sq.col, MaxSearchMoves)
    \/ SearchMakeComputerMove
    \/ SearchComputerMoveCallback(MaxSearchMoves)

SpecSearch == InitSearch /\ [][NextSearch]_vars

\* A step of resetGame: the reset button or a change of mode or difficulty.
ResetStep ==
    \/ ResetGame
    \/ \E value \in {"pvp", "pvc"} : ChangeGameMode(value)
    \/ \E value \in {"easy", "medium", "hard"} : ChangeDifficulty(value)

\* C4: once gameStatus is checkmate or stalemate, no step but a reset changes
\* the board, the side to move, the move history or the status.
C4_TerminalAbsorbing ==
    [][(gameState.gameStatus \in {"checkmate", "stalemate"} /\ ~ResetStep) =>
           /\ gameState'.board = gameState.board
           /\ gameState'.currentTurn = gameState.currentTurn
           /\ gameState'.moveHistory = gameState.moveHistory
           /\ gameState'.gameStatus = gameState.gameStatus]_vars

\* The saved games of Init are games the program plays.
SavedGamesAccepted ==
    \A game \in SavedGames : acceptedGame(freshGameState("pvp", "medium"), game)

\* ---- the rules of chess the claims speak of, stated on their own ----

sign(x) == IF x > 0 THEN 1 ELSE IF x < 0 THEN -1 ELSE 0

\* Every square strictly between (r, c) and (tr, tc) on their common line is empty.
ClearLine(b, r, c, tr, tc) ==
    \A k \in 1..(max(abs(tr - r), abs(tc - c)) - 1) :
        b[r + k * sign(tr - r)][c + k * sign(tc - c)] = null

\* The piece on (r, c) attacks the square (tr, tc).
Attacks(b, r, c, tr, tc) ==
    LET t == b[r][c].type
        dr == tr - r
        dc == tc - c
        straight == (dr = 0 \/ dc = 0) /\ (dr # 0 \/ dc # 0) /\ ClearLine(b, r, c, tr, tc)
        diagonal == abs(dr) = abs(dc) /\ dr # 0 /\ ClearLine(b, r, c, tr, tc)
    IN CASE t = "pawn" -> dr = (IF b[r][c].color = "white" THEN -1 ELSE 1) /\ abs(dc) = 1
         [] t = "knight" -> {abs(dr), abs(dc)} = {1, 2}
         [] t = "king" -> max(abs(dr), abs(dc)) = 1
         [] t = "rook" -> straight
         [] t = "bishop" -> diagonal
         [] t = "queen" -> straight \/ diagonal

\* Some piece of byColor attacks (tr, tc).
Attacked(b, tr, tc, byColor) ==
    \E r \in Rows, c \in Cols :
        b[r][c] # null /\ b[r][c].color = byColor /\ Attacks(b, r, c, tr, tc)

\* The king of the colour stands attacked on the board.
KingAttacked(b, color) ==
    \E r \in Rows, c \in Cols : isKingAt(b, r, c, color) /\ Attacked(b, r, c, other(color))

\* The board makeMove leaves when (row, col) is selected and its move number i is clicked.
BoardAfter(gs, row, col, i) ==
    LET sel == selectSquare(gs, row, col)
    IN makeMoveBoard(sel, row, col, sel.legalMoves[i].row, sel.legalMoves[i].col)

\* C1: every move getLegalMoves returns for a piece of the side to move
\* leaves, once makeMove has executed it, the mover's own king unattacked.
C1_LegalMovesKeepOwnKingSafe ==
    \A row \in Rows, col \in Cols :
        (gameState.board[row][col] # null
         /\ gameState.board[row][col].color = gameState.currentTurn) =>
            \A i \in DOMAIN getLegalMoves(gameState, row, col) :
                ~KingAttacked(BoardAfter(gameState, row, col, i), gameState.currentTurn)

\* C2: in every state the king of the side that is not to move is not attacked.
C2_SideNotToMoveNotInCheck ==
    ~KingAttacked(gameState.board, other(gameState.currentTurn))

\* The side to move has a move that getLegalMoves returns.
HasLegalMove(gs) ==
    \E row \in Rows, col \in Cols :
        /\ gs.board[row][col] # null
        /\ gs.board[row][col].color = gs.currentTurn
        /\ getLegalMoves(gs, row, col) # <<>>

\* C3: gameStatus describes the side to move on the current board: checkmate
\* iff it is in check without a legal move, check iff in check with one,
\* stalemate iff not in check without one, active otherwise.
C3_StatusDescribesSideToMove ==
    LET inCheck == KingAttacked(gameState.board, gameState.currentTurn)
        hasMove == HasLegalMove(gameState)
    IN /\ gameState.gameStatus \in {"active", "check", "checkmate", "stalemate"}
       /\ (gameState.gameStatus = "checkmate") <=> (inCheck /\ ~hasMove)
       /\ (gameState.gameStatus = "check") <=> (inCheck /\ hasMove)
       /\ (gameState.gameStatus = "stalemate") <=> (~inCheck /\ ~hasMove)
       /\ (gameState.gameStatus = "active") <=> (~inCheck /\ hasMove)

\* A move has just mated the side to move (the fool's mate 1. f3 e5 2. g4 Qh4#).
C3_Witness ==
    /\ executed > 0
    /\ gameState.gameStatus = "checkmate"
    /\ gameState.currentTurn = "white"
    /\ gameState.board[4][7] = P("queen", "black")
    /\ ~HasLegalMove(gameState)

\* C5: while a computer move is requested and not yet executed, every human
\* click is rejected.
C5_ClicksRejectedWhileRequested ==
    (timers + callbacks > 0) => clickIgnored(gameState)

\* C6: at most one computer-move request (timer or pending callback) is outstanding.
C6_AtMostOneRequest ==
    timers + callbacks <= 1

\* ---- castling, read off the move history ----

Sides == {"kingSide", "queenSide"}

tag(side) == IF side = "kingSide" THEN "king-side" ELSE "queen-side"

\* The corner a colour's rook of that side starts on.
corner(color, side) ==
    Sq(IF color = "white" THEN 7 ELSE 0, IF side = "kingSide" THEN 7 ELSE 0)

\* getLegalMoves offers the colour's king the castling move of that side.
CastlingOffered(gs, color, side) ==
    \E r \in Rows, c \in Cols :
        /\ isKingAt(gs.board, r, c, color)
        /\ some(getLegalMoves(gs, r, c), LAMBDA m : m.castling = tag(side))

\* A rook of the colour has moved away from that corner.
RookHasLeft(gs, color, side) ==
    \E i \in DOMAIN gs.moveHistory :
        /\ gs.moveHistory[i].piece = P("rook", color)
        /\ gs.moveHistory[i].from = corner(color, side)

\* The colour's rook was captured on that corner without ever having moved.
RookCapturedAtHome(gs, color, side) ==
    \E i \in DOMAIN gs.moveHistory :
        /\ gs.moveHistory[i].captured = P("rook", color)
        /\ gs.moveHistory[i].to = corner(color, side)
        /\ \A j \in 1..(i - 1) :
              ~(gs.moveHistory[j].piece = P("rook", color)
                /\ gs.moveHistory[j].from = corner(color, side))

KingHasMoved(gs, color) ==
    \E i \in DOMAIN gs.moveHistory : gs.moveHistory[i].piece = P("king", color)

\* C7: once a rook has been captured on its original corner, castling on that
\* side is never offered again to that colour.
C7_NoCastlingAfterRookCaptured ==
    \A color \in {"white", "black"}, side \in Sides :
        RookCapturedAtHome(gameState, color, side) => ~CastlingOffered(gameState, color, side)

\* C8: once a colour's king has moved, castling is never offered to it again;
\* once a rook has left its corner, castling on that side is never offered
\* again, wherever king and rooks stand later.
C8_CastlingRightsNeverRestored ==
    \A color \in {"white", "black"}, side \in Sides :
        (KingHasMoved(gameState, color) \/ RookHasLeft(gameState, color, side))
            => ~CastlingOffered(gameState, color, side)

\* White's king has moved and come back, black's king's rook has moved and come
\* back, and nothing else stands in the way of castling king-side.
C8_Witness ==
    /\ executed > 0
    /\ KingHasMoved(gameState, "white")
    /\ RookHasLeft(gameState, "black", "kingSide")
    /\ \A r \in {0, 7} :
          /\ gameState.board[r][4] # null /\ gameState.board[r][4].type = "king"
          /\ gameState.board[r][7] # null /\ gameState.board[r][7].type = "rook"
          /\ gameState.board[r][5] = null
          /\ gameState.board[r][6] = null
    /\ ~KingAttacked(gameState.board, "white")
    /\ ~KingAttacked(gameState.board, "black")
    /\ ~Attacked(gameState.board, 7, 5, "black") /\ ~Attacked(gameState.board, 7, 6, "black")
    /\ ~Attacked(gameState.board, 0, 5, "white") /\ ~Attacked(gameState.board, 0, 6, "white")

\* C9: a castling move changes exactly four squares of the mover's back rank:
\* the king's square and the rook's corner become empty, the king lands on
\* file 6 (king-side) or 2 (queen-side), a rook of the mover's colour on file
\* 5 or 3.
C9_CastlingChangesFourSquares ==
    \A row \in Rows, col \in Cols :
        isKingAt(gameState.board, row, col, gameState.currentTurn) =>
            \A i \in DOMAIN getLegalMoves(gameState, row, col) :
                LET move == getLegalMoves(gameState, row, col)[i]
                    color == gameState.currentTurn
                    after == BoardAfter(gameState, row, col, i)
                    backRank == IF color = "white" THEN 7 ELSE 0
                    kingTo == IF move.castling = "king-side" THEN 6 ELSE 2
                    rookTo == IF move.castling = "king-side" THEN 5 ELSE 3
                    rookFrom == IF move.castling = "king-side" THEN 7 ELSE 0
                    changed == {sq \in Rows \X Cols :
                                   after[sq[1]][sq[2]] # gameState.board[sq[1]][sq[2]]}
                IN move.castling # "none" =>
                      /\ changed = {<<backRank, col>>, <<backRank, rookFrom>>,
                                    <<backRank, kingTo>>, <<backRank, rookTo>>}
                      /\ Cardinality(changed) = 4
                      /\ row = backRank
                      /\ after[backRank][col] = null
                      /\ after[backRank][rookFrom] = null
                      /\ after[backRank][kingTo] = P("king", color)
                      /\ after[backRank][rookTo] = P("rook", color)

\* C10: castling is offered only when the king is not in check, every square
\* strictly between king and rook corner is empty, and neither the square the
\* king passes over nor the one it lands on is attacked.
C10_CastlingOnlyWhenSafe ==
    \A color \in {"white", "black"}, row \in Rows, col \in Cols :
        isKingAt(gameState.board, row, col, color) =>
            \A i \in DOMAIN getLegalMoves(gameState, row, col) :
                LET move == getLegalMoves(gameState, row, col)[i]
                    kingSide == move.castling = "king-side"
                    between == IF kingSide THEN (col + 1)..6 ELSE 1..(col - 1)
                    passed == IF kingSide THEN col + 1 ELSE col - 1
                IN move.castling # "none" =>
                      /\ ~KingAttacked(gameState.board, color)
                      /\ \A c \in between : gameState.board[row][c] = null
                      /\ ~Attacked(gameState.board, row, passed, other(color))
                      /\ ~Attacked(gameState.board, row, move.col, other(color))

\* A move has been made and the side to move is offered a castling move.
C10_Witness ==
    /\ executed > 0
    /\ \E side \in Sides : CastlingOffered(gameState, gameState.currentTurn, side)

\* ---- en passant ----

\* The move is a pawn advancing two ranks.
DoubleStep(m) == m.piece.type = "pawn" /\ abs(m.to.row - m.from.row) = 2

\* The square a pawn of that move passed over: one rank behind where it landed.
PassedOver(m) == Sq(m.to.row + (IF m.piece.color = "white" THEN 1 ELSE -1), m.from.col)

\* C11: enPassantTarget is non-empty iff the most recently executed move of the
\* game was a pawn advancing two ranks, and it is then the square that pawn
\* passed over.
C11_TargetIffDoubleStepJustMade ==
    LET h == gameState.moveHistory
    IN IF h # <<>> /\ DoubleStep(h[Len(h)])
       THEN gameState.enPassantTarget = PassedOver(h[Len(h)])
       ELSE gameState.enPassantTarget = null

\* A double step has been executed, and so has the move that follows one.
C11_Witness ==
    LET h == gameState.moveHistory
    IN /\ executed > 0
       /\ Len(h) >= 2
       /\ DoubleStep(h[Len(h) - 1])
       /\ ~DoubleStep(h[Len(h)])
       /\ gameState.enPassantTarget = null

\* White's first move of a fresh game was the pawn from (6,4) to (4,4).
AfterE2E4(gs) ==
    /\ Len(gs.moveHistory) = 1
    /\ gs.moveHistory[1].from = Sq(6, 4)
    /\ gs.moveHistory[1].to = Sq(4, 4)
    /\ gs.moveHistory[1].piece = P("pawn", "white")

\* C12 as stated: after e2-e4 from the initial position (6,4) is empty, a white
\* pawn stands on (4,4), enPassantTarget is null, black is to move and the
\* status is active.
C12_AfterE2E4TargetNull ==
    AfterE2E4(gameState) =>
        /\ gameState.board[6][4] = null
        /\ gameState.board[4][4] = P("pawn", "white")
        /\ gameState.enPassantTarget = null
        /\ gameState.currentTurn = "black"
        /\ gameState.gameStatus = "active"

\* C12 amended: after e2-e4 from the initial position (6,4) is empty, a white
\* pawn stands on (4,4), every other square is as it was set up,
\* enPassantTarget is the square (5,4) the pawn passed over, black is to move
\* and the status is active.
C12_AfterE2E4TargetE3 ==
    AfterE2E4(gameState) =>
        /\ gameState.board[6][4] = null
        /\ gameState.board[4][4] = P("pawn", "white")
        /\ \A r \in Rows, c \in Cols :
               <<r, c>> \notin {<<6, 4>>, <<4, 4>>} =>
                   gameState.board[r][c] = initializeBoard[r][c]
        /\ gameState.enPassantTarget = Sq(5, 4)
        /\ gameState.currentTurn = "black"
        /\ gameState.gameStatus = "active"

\* The move e2-e4 has just been executed on a fresh game.
C12_Witness ==
    /\ executed > 0
    /\ AfterE2E4(gameState)
    /\ gameState.board[4][4] = P("pawn", "white")

\* The board makeMove leaves when the piece on (row, col) executes the move.
BoardAfterMove(gs, row, col, move) ==
    makeMoveBoard([gs EXCEPT !.legalMoves = <<move>>], row, col, move.row, move.col)

\* The squares on which two boards differ.
Changed(b1, b2) == {sq \in Rows \X Cols : b1[sq[1]][sq[2]] # b2[sq[1]][sq[2]]}

C14_NoLegalMoveFilteredOut ==
    \A row \in Rows, col \in Cols :
        (gameState.board[row][col] # null
         /\ gameState.board[row][col].color = gameState.currentTurn) =>
            \A i \in DOMAIN pseudoLegalMoves(gameState, row, col) :
                LET move == pseudoLegalMoves(gameState, row, col)[i]
                IN ~KingAttacked(BoardAfterMove(gameState, row, col, move),
                                 gameState.currentTurn)
                       => some(getLegalMoves(gameState, row, col), LAMBDA m : m = move)

\* C15: every step that executes a move executes, for the piece that stood on
\* the origin square, a move getLegalMoves returns for that square on the
\* gameState the step starts from.
C15_ExecutedMoveIsLegalMove ==
    [][executed' # executed =>
          LET h == gameState'.moveHistory
              m == h[Len(h)]
          IN /\ Len(h) = Len(gameState.moveHistory) + 1
             /\ gameState.board[m.from.row][m.from.col] = m.piece
             /\ some(getLegalMoves(gameState, m.from.row, m.from.col),
                     LAMBDA x : x.row = m.to.row /\ x.col = m.to.col)]_vars

\* Against the computer, white has moved by clicks and black by the callback.
C15_Witness ==
    LET h == gameState.moveHistory
    IN /\ executed >= 2
       /\ gameState.gameMode = "pvc"
       /\ Len(h) >= 2
       /\ h[Len(h) - 1].piece.color = "white"
       /\ h[Len(h)].piece.color = "black"

\* C17: a pawn that has just moved onto the farthest rank for its colour is
\* a queen of that colour on the board makeMove leaves, and no pawn stands on
\* row 0 or row 7.
C17_PawnOnFarthestRankIsQueen ==
    LET h == gameState.moveHistory
    IN /\ \A row \in {0, 7}, col \in Cols :
              gameState.board[row][col] = null \/ gameState.board[row][col].type # "pawn"
       /\ (h # <<>> /\ h[Len(h)].piece.type = "pawn"
              /\ h[Len(h)].to.row = (IF h[Len(h)].piece.color = "white" THEN 0 ELSE 7)) =>
                 gameState.board[h[Len(h)].to.row][h[Len(h)].to.col]
                     = P("queen", h[Len(h)].piece.color)
       /\ \A row \in Rows, col \in Cols :
              (gameState.board[row][col] # null /\ gameState.board[row][col].type = "pawn") =>
                  \A i \in DOMAIN getLegalMoves(gameState, row, col) :
                      LET move == getLegalMoves(gameState, row, col)[i]
                          color == gameState.board[row][col].color
                      IN move.row = (IF color = "white" THEN 0 ELSE 7) =>
                            BoardAfterMove(gameState, row, col, move)[move.row][move.col]
                                = P("queen", color)

\* A pawn has just moved onto row 0 and a queen stands there.
C17_Witness ==
    LET h == gameState.moveHistory
    IN /\ executed > 0
       /\ h # <<>>
       /\ h[Len(h)].piece = P("pawn", "white")
       /\ h[Len(h)].to.row = 0
       /\ gameState.board[0][h[Len(h)].to.col] = P("queen", "white")

\* The squares on which a king of the colour stands.
Kings(board, color) == {sq \in Rows \X Cols : isKingAt(board, sq[1], sq[2], color)}

\* C16: the board holds exactly one white king and exactly one black king.
C16_OneKingEach ==
    /\ Cardinality(Kings(gameState.board, "white")) = 1
    /\ Cardinality(Kings(gameState.board, "black")) = 1

\* A request for a computer move is being served: getBestMove is about to run
\* on gameState.
Thinking == callbacks > 0

\* C18: getBestMove returns null exactly when black has no legal move on the
\* live board; otherwise it returns a move from a square of the board holding
\* a black piece to a square of the board, and the move is one getLegalMoves
\* returns for that square. The game may be over or a search may be requested.
C18_BestMoveIsNullOrLegal ==
    (Thinking \/ gameState.gameStatus \in {"checkmate", "stalemate"}) =>
        \A bestMove \in {searchBestMove(gameState).bestMove} :
            IF getAllPossibleMoves(gameState, gameState.board, "black") = <<>>
            THEN bestMove = null
            ELSE /\ bestMove # null
                 /\ bestMove.from.row \in Rows /\ bestMove.from.col \in Cols
                 /\ bestMove.to.row \in Rows /\ bestMove.to.col \in Cols
                 /\ gameState.board[bestMove.from.row][bestMove.from.col] # null
                 /\ gameState.board[bestMove.from.row][bestMove.from.col].color = "black"
                 /\ some(getLegalMoves(gameState, bestMove.from.row, bestMove.from.col),
                         LAMBDA m : m.row = bestMove.to.row /\ m.col = bestMove.to.col)

C18_Witness ==
    LET h == gameState.moveHistory
    IN /\ gameState.gameMode = "pvc"
       /\ executed = 2
       /\ callbacks = 0
       /\ h[Len(h)].piece.color = "black"
       /\ h[Len(h) - 1].piece.color = "white"

\* The set of the values a function takes on 1..n.
Values(f(_), n) == {f(i) : i \in 1..n}

Maximum(S) == CHOOSE x \in S : \A y \in S : y <= x

Minimum(S) == CHOOSE x \in S : \A y \in S : x <= y

\* The minimax value of a board, searched to the given depth without a
\* window, without an order on the moves and without a cut.
RECURSIVE fullMinimax(_, _, _, _, _)
fullMinimax(gs, board, depth, isMaximizing, aiColor) ==
    LET currentColor == IF isMaximizing THEN aiColor
                        ELSE (IF aiColor = "black" THEN "white" ELSE "black")
        moves == getAllPossibleMoves(gs, board, currentColor)
        child(i) == fullMinimax(gs,
                                makeMoveOnBoard(board, moves[i].from.row, moves[i].from.col,
                                                moves[i].to.row, moves[i].to.col),
                                depth - 1, ~isMaximizing, aiColor)
    IN IF Len(moves) = 0
       THEN (IF isKingInCheckOnBoard(gs, board, currentColor)
             THEN (IF isMaximizing THEN Half(-100000 - depth * 100)
                   ELSE Half(100000 + depth * 100))
             ELSE 0)
       ELSE IF depth = 0 THEN evaluatePosition(board, aiColor)
       ELSE IF isMaximizing THEN Maximum(Values(child, Len(moves)))
            ELSE Minimum(Values(child, Len(moves)))

\* The best of the values of black's moves under the full search (the
\* penalty of lines 1156-1162 included).
fullBestValue(gs) ==
    LET moves == getAllPossibleMoves(gs, gs.board, "black")
        h == gs.moveHistory
        takesBack(move) ==
            /\ Len(h) >= 2
            /\ move.from = h[Len(h) - 1].to
            /\ move.to = h[Len(h) - 1].from
        value(i) ==
            fullMinimax(gs, makeMoveOnBoard(gs.board, moves[i].from.row, moves[i].from.col,
                                            moves[i].to.row, moves[i].to.col),
                        searchDepth(gs.aiDifficulty) - 1, FALSE, "black")
                - (IF takesBack(moves[i]) THEN Half(300) ELSE 0)
    IN Maximum(Values(value, Len(moves)))

\* C19: the value of the move getBestMove chooses, computed with alpha-beta
\* cuts and ordered moves, is the value the full search of the same tree to
\* the same depth gives the best move.
C19_PrunedValueIsFullValue ==
    (Thinking /\ getAllPossibleMoves(gameState, gameState.board, "black") # <<>>) =>
        searchBestMove(gameState).bestValue = fullBestValue(gameState)

\* The number of times the call minimax(board, depth, alpha, beta, ...) and the
\* calls below it leave a loop at line 1082 or 1092 with moves still to try.
RECURSIVE cutsBelow(_, _, _, _, _, _, _)
RECURSIVE maxLoopCuts(_, _, _, _, _, _, _, _)
RECURSIVE minLoopCuts(_, _, _, _, _, _, _, _)
cutsBelow(gs, board, depth, alpha, beta, isMaximizing, aiColor) ==
    LET currentColor == IF isMaximizing THEN aiColor
                        ELSE (IF aiColor = "black" THEN "white" ELSE "black")
        moves == getAllPossibleMoves(gs, board, currentColor)
    IN IF Len(moves) = 0 \/ depth = 0 THEN 0
       ELSE IF isMaximizing
            THEN maxLoopCuts(gs, board, depth, alpha, beta, aiColor, orderMoves(moves, board), 1)
            ELSE minLoopCuts(gs, board, depth, alpha, beta, aiColor, orderMoves(moves, board), 1)

maxLoopCuts(gs, board, depth, alpha, beta, aiColor, orderedMoves, i) ==
    IF i > Len(orderedMoves) THEN 0
    ELSE LET move == orderedMoves[i]
             newBoard == makeMoveOnBoard(board, move.from.row, move.from.col,
                                         move.to.row, move.to.col)
             evaluation == minimax(gs, newBoard, depth - 1, alpha, beta, FALSE, aiColor)
             below == cutsBelow(gs, newBoard, depth - 1, alpha, beta, FALSE, aiColor)
         IN IF beta <= max(alpha, evaluation)
            THEN below + (IF i < Len(orderedMoves) THEN 1 ELSE 0)
            ELSE below + maxLoopCuts(gs, board, depth, max(alpha, evaluation), beta, aiColor,
                                     orderedMoves, i + 1)

minLoopCuts(gs, board, depth, alpha, beta, aiColor, orderedMoves, i) ==
    IF i > Len(orderedMoves) THEN 0
    ELSE LET move == orderedMoves[i]
             newBoard == makeMoveOnBoard(board, move.from.row, move.from.col,
                                         move.to.row, move.to.col)
             evaluation == minimax(gs, newBoard, depth - 1, alpha, beta, TRUE, aiColor)
             below == cutsBelow(gs, newBoard, depth - 1, alpha, beta, TRUE, aiColor)
         IN IF min(beta, evaluation) <= alpha
            THEN below + (IF i < Len(orderedMoves) THEN 1 ELSE 0)
            ELSE below + minLoopCuts(gs, board, depth, alpha, min(beta, evaluation), aiColor,
                                     orderedMoves, i + 1)

\* Some move of black is searched with a cut.
SearchCuts(gs) ==
    LET moves == getAllPossibleMoves(gs, gs.board, "black")
    IN \E i \in DOMAIN moves :
          cutsBelow(gs, makeMoveOnBoard(gs.board, moves[i].from.row, moves[i].from.col,
                                        moves[i].to.row, moves[i].to.col),
                    searchDepth(gs.aiDifficulty) - 1, -Infinity, Infinity, FALSE, "black") > 0

C19_Witness ==
    /\ Thinking
    /\ SearchCuts(gameState)
    /\ searchBestMove(gameState).bestValue = fullBestValue(gameState)

\* The states the saved games of SearchGames leave.
SearchStates ==
    {replay(freshGameState(game.gameMode, game.aiDifficulty), game.moves) :
        game \in SearchGames}

\* C20: minimax called on the board of the live state gives the score it
\* gives when the live state is another one with the same board, whatever
\* the en-passant target and the moved flags of the two states are.
C20_MinimaxIgnoresLiveState ==
    \A twin \in SearchStates :
        twin.board = gameState.board =>
            minimax(gameState, gameState.board, 1, -Infinity, Infinity, FALSE, "black")
                = minimax(twin, gameState.board, 1, -Infinity, Infinity, FALSE, "black")
\* C21: when getBestMove returns, gameState is what it was when getBestMove
\* was called: the board, the side to move, the status, the history, the
\* en-passant target, the castling and moved flags and the selection.
C21_SearchLeavesGameStateAlone ==
    Thinking => getBestMoveState(gameState) = gameState

\* A search is requested on a position where black has a move, so that boards
\* are swapped in and out of gameState.
C21_Witness ==
    /\ Thinking
    /\ gameState.aiDifficulty = "medium"
    /\ getAllPossibleMoves(gameState, gameState.board, "black") # <<>>
    /\ getBestMoveState(gameState) = gameState

\* The states in which a click is to be ignored: the game is over, the
\* computer is thinking, or black is to move against the computer.
NotTheHumansTurn ==
    \/ gameState.gameStatus \in {"checkmate", "stalemate"}
    \/ gameState.isAiThinking
    \/ (gameState.gameMode = "pvc" /\ gameState.currentTurn = "black")

\* The selected square as a sequence, empty when nothing is selected.
selection(gs) ==
    IF gs.selectedSquare = null THEN <<>>
    ELSE <<gs.selectedSquare.row, gs.selectedSquare.col>>

\* Every variable of the program, the selection written as a sequence.
everything ==
    <<[gameState EXCEPT !.selectedSquare = selection(gameState)],
      localStorage, timers, callbacks, executed>>

\* A timer of line 490 fires or the callback of makeComputerMove runs.
ComputerStep == callbacks' # callbacks

\* C22: a click made while the game is over, or while the computer is
\* thinking, or on black's turn against the computer, changes nothing: in
\* such a state every step that changes a field of gameState (the selection
\* included), the saved record or a timer is a reset or a step of the
\* computer's move, never a click.
C22_IgnoredClickChangesNothing ==
    [][NotTheHumansTurn => (ResetStep \/ ComputerStep)]_everything

\* The computer is thinking about black's move: clicks arrive in this state.
C22_Witness ==
    /\ gameState.isAiThinking
    /\ gameState.gameMode = "pvc"
    /\ gameState.currentTurn = "black"
    /\ gameState.gameStatus = "active"
    /\ callbacks > 0

\* C23: a click that executes no move (a destination that is not a legal move
\* of the selected piece, an empty square or a piece of the other side with
\* nothing selected, or the selection of a piece) leaves the board, the side
\* to move, the status, the move history, the en-passant target, the castling
\* rights and the moved flags as they were, and writes no record and starts
\* no timer: a step that is neither a reset, nor a step of the computer's
\* move, nor an executed move changes the selection at most.
C23_InvalidClickChangesSelectionOnly ==
    [][(~ResetStep /\ ~ComputerStep /\ executed' = executed) =>
           /\ gameState'.board = gameState.board
           /\ gameState'.currentTurn = gameState.currentTurn
           /\ gameState'.gameStatus = gameState.gameStatus
           /\ gameState'.moveHistory = gameState.moveHistory
           /\ gameState'.enPassantTarget = gameState.enPassantTarget
           /\ gameState'.castlingRights = gameState.castlingRights
           /\ gameState'.kingMoved = gameState.kingMoved
           /\ gameState'.rookMoved = gameState.rookMoved
           /\ gameState'.gameMode = gameState.gameMode
           /\ gameState'.aiDifficulty = gameState.aiDifficulty
           /\ gameState'.isAiThinking = gameState.isAiThinking
           /\ localStorage' = localStorage
           /\ timers' = timers]_everything

\* After a move of the game a piece is selected, and an empty square that is
\* not one of its legal destinations can be clicked.
C23_Witness ==
    /\ executed > 0
    /\ ~clickIgnored(gameState)
    /\ gameState.selectedSquare # null
    /\ \E sq \in ClickSquares :
          /\ gameState.board[sq.row][sq.col] = null
          /\ ~some(gameState.legalMoves, LAMBDA move : move.row = sq.row /\ move.col = sq.col)

\* The standard initial position, written out square by square.
StandardPosition(board) ==
    LET pieces == <<"rook", "knight", "bishop", "queen", "king", "bishop", "knight", "rook">>
    IN \A row \in Rows, col \in Cols :
          board[row][col] =
              CASE row = 0 -> [type |-> pieces[col + 1], color |-> "black"]
                [] row = 1 -> [type |-> "pawn", color |-> "black"]
                [] row = 6 -> [type |-> "pawn", color |-> "white"]
                [] row = 7 -> [type |-> pieces[col + 1], color |-> "white"]
                [] OTHER -> null

\* A game nobody has played yet: the standard position, white to move, status
\* active, no history, no en-passant target, nothing marked as moved, nothing
\* selected, the computer not thinking.
NewGame(gs) ==
    /\ StandardPosition(gs.board)
    /\ gs.currentTurn = "white"
    /\ gs.gameStatus = "active"
    /\ gs.moveHistory = <<>>
    /\ gs.enPassantTarget = null
    /\ \A color \in {"white", "black"} :
          /\ ~gs.kingMoved[color]
          /\ ~gs.rookMoved[color].kingSide /\ ~gs.rookMoved[color].queenSide
          /\ gs.castlingRights[color].kingSide /\ gs.castlingRights[color].queenSide
    /\ selection(gs) = <<>>
    /\ gs.legalMoves = <<>>
    /\ ~gs.isAiThinking

\* C24: the reset button, from any state, leaves a new game with the mode and
\* the difficulty of the state it was pressed in; a change of mode leaves a
\* new game in the chosen mode with the difficulty kept; a change of
\* difficulty leaves a new game at the chosen difficulty with the mode kept.
C24_ResetKeepsOnlySettings ==
    [][/\ ResetGame =>
            /\ NewGame(gameState')
            /\ gameState'.gameMode = gameState.gameMode
            /\ gameState'.aiDifficulty = gameState.aiDifficulty
       /\ \A value \in {"pvp", "pvc"} :
            ChangeGameMode(value) =>
                /\ NewGame(gameState')
                /\ gameState'.gameMode = value
                /\ gameState'.aiDifficulty = gameState.aiDifficulty
       /\ \A value \in {"easy", "medium", "hard"} :
            ChangeDifficulty(value) =>
                /\ NewGame(gameState')
                /\ gameState'.gameMode = gameState.gameMode
                /\ gameState'.aiDifficulty = value]_everything

\* A game against the computer at difficulty hard has been reset after moves
\* were played in it.
C24_Witness ==
    /\ executed > 0
    /\ NewGame(gameState)
    /\ gameState.gameMode = "pvc"
    /\ gameState.aiDifficulty = "hard"
    /\ localStorage = null

NothingUsableStored ==
    \/ "type" \in DOMAIN localStorage
    \/ localStorage.board = undefined

\* C26: with a missing or corrupt record under STORAGE_KEY, loadGameState
\* returns false and the page holds a game nobody has played yet, with a board
\* (a move would have replaced the record by a good one).
C26_CorruptRecordStartsNewGame ==
    NothingUsableStored =>
        /\ ~loadGameStateReturn(localStorage)
        /\ ~renderBoardThrows(gameState)
        /\ StandardPosition(gameState.board)
        /\ gameState.currentTurn = "white"
        /\ gameState.gameStatus = "active"
        /\ gameState.moveHistory = <<>>
        /\ gameState.enPassantTarget = null


\* C27: the moves of moveHistory are white's and black's in turn, white's
\* first: no side ever moves twice in a row.
C27_MovesAlternate ==
    \A i \in DOMAIN gameState.moveHistory :
        gameState.moveHistory[i].piece.color = (IF i % 2 = 1 THEN "white" ELSE "black")


\* It is the computer's turn in a game that is not over.
ComputerToMove ==
    /\ gameState.gameMode = "pvc"
    /\ gameState.currentTurn = "black"
    /\ gameState.gameStatus \in {"active", "check"}

\* The move executed last was black's, and it was move number n + 1 or later.
BlackMovedAfter(n) ==
    /\ executed > n
    /\ gameState.moveHistory # <<>>
    /\ gameState.moveHistory[Len(gameState.moveHistory)].piece.color = "black"

\* C28: whenever it is black's turn in a game against the computer that is
\* not over, a black move is executed later on, timers and callbacks being
\* served, unless the user has ended the game by a reset or a change of mode.
C28_ComputerEventuallyMoves ==
    \A n \in 0..LiveLimit :
        (ComputerToMove /\ executed = n) ~> (BlackMovedAfter(n) \/ ~ComputerToMove)

C30_PiecesMatchCaptures ==
    Cardinality({sq \in Rows \X Cols : gameState.board[sq[1]][sq[2]] # null})
        = 32 - Cardinality({i \in DOMAIN gameState.moveHistory :
                               gameState.moveHistory[i].captured # null})


\* C31: for every legal move of the side to move, the board makeMoveOnBoard
\* builds for the search is the board makeMove leaves when the move is played.
C31_SearchBoardIsGameBoard ==
    \A row \in Rows, col \in Cols :
        (gameState.board[row][col] # null
         /\ gameState.board[row][col].color = gameState.currentTurn)
        => \A move \in {getLegalMoves(gameState, row, col)[i] :
                            i \in DOMAIN getLegalMoves(gameState, row, col)} :
              makeMoveOnBoard(gameState.board, row, col, move.row, move.col)
                  = makeMoveBoard(selectSquare(gameState, row, col), row, col,
                                  move.row, move.col)


\* The king-activity table at the square of a king of the colour (line 941).
kingActivity(color, sq) ==
    KING_ENDGAME_TABLE[(IF color = "white" THEN 7 - sq.row ELSE sq.row) + 1][sq.col + 1]

\* The board with the piece of square from put on the empty square to.
relocated(board, from, to) ==
    [[board EXCEPT ![to.row][to.col] = board[from.row][from.col]]
        EXCEPT ![from.row][from.col] = null]

\* C32: in an endgame with both kings on the board, putting the opponent's
\* king on an empty square where the king-activity table is higher, at the
\* same distance from the centre and from the other king (so that the bonus
\* of lines 958-969 is the same), lowers evaluatePosition(board, color).
C32_OpponentKingCentreLowersScore ==
    \A color \in {"white", "black"} :
        LET board == gameState.board
            opponentColor == IF color = "black" THEN "white" ELSE "black"
            aiKing == lastKing(board, color, TRUE)
            enemyKing == lastKing(board, color, FALSE)
        IN (isEndgame(board) /\ aiKing.row # -1 /\ enemyKing.row # -1)
           => \A row \in Rows, col \in Cols :
                 (/\ board[row][col] = null
                  /\ kingActivity(opponentColor, Sq(row, col))
                        > kingActivity(opponentColor, enemyKing)
                  /\ max(abs(7 - 2 * row), abs(7 - 2 * col))
                        = max(abs(7 - 2 * enemyKing.row), abs(7 - 2 * enemyKing.col))
                  /\ kingDistance(aiKing.row, aiKing.col, row, col)
                        = kingDistance(aiKing.row, aiKing.col, enemyKing.row, enemyKing.col))
                 => evaluatePosition(relocated(board, enemyKing, Sq(row, col)), color)
                        < evaluatePosition(board, color)

====
